---------------------------- MODULE Spec2Model ----------------------------
(***************************************************************************)
(* Cobblemon spawn editor: the seed provider (get_default_pokemons.py),    *)
(* the desktop front-end (exe.py) and the web front-end (app.py).          *)
(*                                                                         *)
(* JSON objects are functions from key strings to values, JSON lists are   *)
(* sequences.  Float-valued fields (weight, multiplier, percentage,        *)
(* minDistanceBetweenSpawns) are counted in tenths, so 1.0 is 10 and 1.5   *)
(* is 15; integer-valued fields are plain integers.                        *)
(***************************************************************************)
EXTENDS Integers, Sequences, FiniteSets, TLC

VARIABLES
    \* ---- the spawn directory and the remote repository
    disk,            \* .default/spawn_pool_world: file name -> content
    dirExists,       \* os.path.isdir(OUTPUT_DIR)
    upstream,        \* remote: the file names of the spawn_pool_world archive
    species,         \* remote: the (dex, name) pairs of the species archive
    \* ---- get_default_pokemons.py: one call of reset() / get_default()
    seedPc,          \* position of the call
    seedOp,          \* "reset" or "get_default"
    existing_files,  \* get_default: the set download_spawn_pool returned
    fetched,         \* get_default: the list fetch_all_species returned
    before,          \* the directory when the call started
    beforeExists,    \* whether the directory existed when the call started
    cleanSeed,       \* the directory is as the last call left it on completing
    runs,            \* calls made so far
    \* ---- one condition object in one front-end's condition editor
    condFront,       \* "exe" (ConditionEditor) or "app" (render_condition)
    condSrc,         \* the condition object the editor was built from
    condPhase,       \* "source": not decoded yet; "editing": editor built
    condEd,          \* exe.py: the ConditionEditor's variables
    condSs,          \* app.py: st.session_state of the condition's widgets
    condEdits,       \* user edits made since the editor was built
    \* ---- exe.py: one session of CobblemonSpawnEditor
    files,           \* self.files: the file names _load_files listed
    current_file,    \* self.current_file
    top_fields,      \* self.enabled_var, installed_var, uninstalled_var
    spawn_editors,   \* self.spawn_editors
    deskLoaded,      \* the document the editor was last built from
    deskAdded,       \* the sub-editors added since then
    deskDeleted,     \* the sub-editors deleted since then
    deskDirty,       \* the user has changed the editor since then
    deskOps,         \* user actions on the editors so far
    deskSaves,       \* calls of save_spawn_data that have written
    deskFailed,      \* the files whose load raised JSONDecodeError
    \* ---- app.py: one browser session of the Streamlit script
    webSelected,     \* the file chosen in the "pokemon_select" selectbox
    webSs,           \* st.session_state: the widgets' values
    webPlain,        \* st.session_state: the counts the script stores itself
    webTrig,         \* the button whose click triggers the next run
    webPending,      \* a script run is due (an interaction or st.rerun())
    webLog,          \* the user's list actions since the file was last saved
    webOps,          \* user interactions so far
    webSaves,        \* documents the script has written
    webReruns,       \* consecutive runs that ended in st.rerun()
    \* ---- a front-end calling the seed
    bgFront,         \* "exe" or "app"
    uiPc,            \* what the UI thread (Tk main loop, script run) is at
    progress,        \* exe.py: the progress window exists
    workerPc,        \* exe.py: position of the worker thread
    afterQ,          \* exe.py: _finish calls queued with root.after
    bgFiles,         \* the file list the front-end has loaded last
    bgReturned,      \* seed calls that have returned or raised
    bgCallbacks,     \* reloads of the file list made for a finished seed
    bgEvents,        \* events the UI has handled while a seed was running
    bgErrors,        \* seed calls that raised, and those the user was told of
    \* ---- one spawn entry in one front-end's spawn editor
    spFront,         \* "exe" (SpawnEditor) or "app" (render_spawn)
    spSrc,           \* the spawn entry the editor was built from
    spPhase,         \* "source": not decoded yet; "editing": editor built;
                     \* "raised": the decode has raised
    spEd,            \* exe.py: the SpawnEditor's variables and sub-editors
    spSs,            \* app.py: st.session_state of the entry's widgets
    spPlain,         \* app.py: the counts the script stores itself
    spTrig,          \* app.py: the button whose click triggers the next run
    spPending,       \* app.py: a script run is due
    spOut,           \* app.py: what render_spawn returned in the last run
    spLog            \* the user's edits since the editor was built

\* get_default_pokemons.py's own state, the directory left out
seedCtl == <<upstream, species, seedPc, seedOp, existing_files, fetched,
             before, beforeExists, cleanSeed, runs>>

seedVars == <<disk, dirExists, seedCtl>>

condVars == <<condFront, condSrc, condPhase, condEd, condSs, condEdits>>

deskVars == <<files, current_file, top_fields, spawn_editors, deskLoaded,
              deskAdded, deskDeleted, deskDirty, deskOps, deskSaves,
              deskFailed>>

webVars == <<webSelected, webSs, webPlain, webTrig, webPending, webLog,
             webOps, webSaves, webReruns>>

bgVars == <<bgFront, uiPc, progress, workerPc, afterQ, bgFiles, bgReturned,
            bgCallbacks, bgEvents, bgErrors>>

spVars == <<spFront, spSrc, spPhase, spEd, spSs, spPlain, spTrig, spPending,
            spOut, spLog>>

vars == <<seedVars, condVars, deskVars, webVars, bgVars, spVars>>

\* what the actions of one part leave alone
notSeedBgVars == <<condVars, deskVars, webVars, spVars>>

\* the desktop session's editor, without self.files and self.current_file
deskEditorVars == <<top_fields, spawn_editors, deskLoaded, deskAdded,
                    deskDeleted, deskDirty, deskOps, deskSaves, deskFailed>>

notSeedBgDeskVars == <<condVars, webVars, spVars>>

notSeedVars == <<notSeedBgVars, bgVars>>

notCondVars == <<seedVars, deskVars, webVars, bgVars, spVars>>

notDeskVars == <<dirExists, seedCtl, condVars, webVars, bgVars, spVars>>

notWebVars == <<dirExists, seedCtl, condVars, deskVars, bgVars, spVars>>

notSpVars == <<seedVars, condVars, deskVars, webVars, bgVars>>

-----------------------------------------------------------------------------
(* Bounds *)

MaxDex == 2
MaxRuns == 2
MaxNum == 9
MaxCondEdits == 1
MaxOps == 2
MaxSaves == 1
MaxWebOps == 2
MaxIdx == 2
MaxEvents == 2
MaxSpEdits == 2
MaxReruns == 6

-----------------------------------------------------------------------------
(* JSON helpers *)

Get(o, k, d) == IF k \in DOMAIN o THEN o[k] ELSE d

Has(o, k) == k \in DOMAIN o

Without(o, ks) == [k \in (DOMAIN o) \ ks |-> o[k]]

EmptyObj == [k \in {} |-> 0]

-----------------------------------------------------------------------------
(* File names: "{dex:04d}_{name}.json" *)

Names == <<"pidgey", "pidgey_herd">>

NameSet == {Names[i] : i \in 1..Len(Names)}

NameIndex(n) == CHOOSE i \in 1..Len(Names) : Names[i] = n

FileName == [dex : 1..MaxDex, name : NameSet]

\* sorted(): by dex number, then by name
FileBefore(f, g) ==
    \/ f.dex < g.dex
    \/ f.dex = g.dex /\ NameIndex(f.name) < NameIndex(g.name)

\* the files of S that come before f in sorted order
Earlier(S, f) == {g \in S : FileBefore(g, f)}

\* the first k files of S in sorted order
FirstK(S, k) == {f \in S : Cardinality(Earlier(S, f)) < k}

-----------------------------------------------------------------------------
(* File contents *)

BLANK_SPAWN ==
    [enabled |-> TRUE, neededInstalledMods |-> <<>>,
     neededUninstalledMods |-> <<>>, spawns |-> <<>>]

\* what the upstream archive holds for file f
UpstreamDoc(f) ==
    [enabled |-> TRUE,
     spawns |-> <<[id |-> f.name, type |-> "pokemon", pokemon |-> f.name,
                   bucket |-> "common", spawnablePositionType |-> "grounded",
                   level |-> "1-10", weight |-> 10]>>]

\* a file the user has edited and saved
LocalDoc ==
    [enabled |-> FALSE, neededInstalledMods |-> <<>>,
     neededUninstalledMods |-> <<>>, spawns |-> <<>>]

Absent == [kind |-> "absent", doc |-> EmptyObj]

\* open(path, "w") has truncated the file and nothing or only a part of the
\* document has been written
Partial == [kind |-> "partial", doc |-> EmptyObj]

\* a file that is not structurally valid JSON
Corrupt == [kind |-> "corrupt", doc |-> EmptyObj]

File(d) == [kind |-> "doc", doc |-> d]

-----------------------------------------------------------------------------
(* get_default_pokemons.py *)

\* reset() without the wipe
rmtree_skipped == disk

\* rmtree(OUTPUT_DIR, ignore_errors=True)
rmtree == [f \in FileName |-> Absent]

\* download_spawn_pool: the members written when the first k members of the
\* archive have been extracted
Extracted(k) ==
    [f \in FileName |->
        IF f \in FirstK(upstream, k) THEN File(UpstreamDoc(f)) ELSE disk[f]]

\* create_blank_spawns: existing_dex
existing_dex(fnames) == {f.dex : f \in fnames}

\* create_blank_spawns: the species that pass "if dex in existing_dex: continue"
Missing(fnames, sp) == {s \in sp : s.dex \notin existing_dex(fnames)}

\* create_blank_spawns without the os.path.exists test
Blanked_overwriting(fnames, sp, k) ==
    [f \in FileName |->
        IF f \in FirstK(Missing(fnames, sp), k)
        THEN File(BLANK_SPAWN) ELSE disk[f]]

\* create_blank_spawns: the directory after the first k species of
\* sorted(species) that lack a spawn file have been handled
Blanked(fnames, sp, k) ==
    [f \in FileName |->
        IF f \in FirstK(Missing(fnames, sp), k) /\ disk[f] = Absent
        THEN File(BLANK_SPAWN) ELSE disk[f]]

\* create_blank_spawns: the fnames it has to open for writing
ToCreate(fnames, sp) == {f \in Missing(fnames, sp) : disk[f] = Absent}

\* reset() is entered: rmtree, then get_default() begins
reset_call ==
    /\ seedPc = "idle"
    /\ runs < MaxRuns
    /\ runs' = runs + 1
    /\ before' = disk
    /\ beforeExists' = dirExists
    /\ disk' = rmtree
    /\ dirExists' = FALSE
    /\ seedOp' = "reset"
    /\ seedPc' = "download"
    /\ UNCHANGED <<upstream, species, existing_files, fetched, cleanSeed>>

\* reset(), called on its own (python get_default_pokemons.py)
reset ==
    /\ reset_call
    /\ UNCHANGED notSeedVars

\* get_default(), called on the directory as it is
get_default ==
    /\ seedPc = "idle"
    /\ runs < MaxRuns
    /\ runs' = runs + 1
    /\ before' = disk
    /\ beforeExists' = dirExists
    /\ seedOp' = "get_default"
    /\ seedPc' = "download"
    /\ UNCHANGED <<disk, dirExists, upstream, species, existing_files,
                   fetched, cleanSeed>>
    /\ UNCHANGED notSeedVars

\* download_spawn_pool returns: every member of the archive is written
download_spawn_pool ==
    /\ seedPc = "download"
    /\ disk' = Extracted(Cardinality(upstream))
    /\ dirExists' = (dirExists \/ upstream # {})
    /\ existing_files' = upstream
    /\ seedPc' = "fetch"
    /\ UNCHANGED <<upstream, species, seedOp, fetched, before, beforeExists,
                   cleanSeed, runs>>
    /\ UNCHANGED notSeedVars

\* download_spawn_pool raises: the request fails (k = 0, nothing written), or
\* the extraction fails after k members, the next one left partly written
\* (cut) or not yet opened
download_spawn_pool_fails ==
    /\ seedPc = "download"
    /\ \E k \in 0..Cardinality(upstream), cut \in BOOLEAN :
          /\ k < Cardinality(upstream) \/ (upstream = {} /\ ~cut)
          /\ disk' = [f \in FileName |->
                        IF cut /\ f \in FirstK(upstream, k + 1)
                                 \ FirstK(upstream, k)
                        THEN Partial ELSE Extracted(k)[f]]
          /\ dirExists' = (dirExists \/ k > 0 \/ cut)
    /\ seedPc' = "failed"
    /\ UNCHANGED <<upstream, species, seedOp, existing_files, fetched, before,
                   beforeExists, cleanSeed, runs>>
    /\ UNCHANGED notSeedVars

\* fetch_all_species returns
fetch_all_species ==
    /\ seedPc = "fetch"
    /\ fetched' = species
    /\ seedPc' = "blank"
    /\ UNCHANGED <<disk, dirExists, upstream, species, seedOp, existing_files,
                   before, beforeExists, cleanSeed, runs>>
    /\ UNCHANGED notSeedVars

\* fetch_all_species raises (either request fails)
fetch_all_species_fails ==
    /\ seedPc = "fetch"
    /\ seedPc' = "failed"
    /\ UNCHANGED <<disk, dirExists, upstream, species, seedOp, existing_files,
                   fetched, before, beforeExists, cleanSeed, runs>>
    /\ UNCHANGED notSeedVars

\* create_blank_spawns returns, and get_default with it
create_blank_spawns ==
    /\ seedPc = "blank"
    /\ ToCreate(existing_files, fetched) # {} => dirExists
    /\ disk' = Blanked(existing_files, fetched,
                       Cardinality(Missing(existing_files, fetched)))
    /\ seedPc' = "done"
    /\ UNCHANGED <<dirExists, upstream, species, seedOp, existing_files,
                   fetched, before, beforeExists, cleanSeed, runs>>
    /\ UNCHANGED notSeedVars

\* create_blank_spawns raises: open() fails at once when the directory does
\* not exist, or a write fails after k species have been handled
create_blank_spawns_fails ==
    /\ seedPc = "blank"
    /\ ToCreate(existing_files, fetched) # {}
    /\ \E k \in 0..(Cardinality(Missing(existing_files, fetched)) - 1) :
          /\ ~dirExists => k = 0
          /\ FirstK(Missing(existing_files, fetched), k + 1)
                 \ FirstK(Missing(existing_files, fetched), k)
               \subseteq ToCreate(existing_files, fetched)
          /\ disk' = Blanked(existing_files, fetched, k)
    /\ seedPc' = "failed"
    /\ UNCHANGED <<dirExists, upstream, species, seedOp, existing_files,
                   fetched, before, beforeExists, cleanSeed, runs>>
    /\ UNCHANGED notSeedVars

\* the call is over (it returned or raised) and its locals are gone; the next
\* one may start
seed_over ==
    /\ seedPc \in {"done", "failed"}
    /\ seedPc' = "idle"
    /\ existing_files' = {}
    /\ fetched' = {}
    /\ before' = disk
    /\ beforeExists' = dirExists
    /\ cleanSeed' = (seedPc = "done")
    /\ UNCHANGED <<disk, dirExists, upstream, species, seedOp, runs>>

\* the caller of a call made on its own goes on
seed_return ==
    /\ seed_over
    /\ UNCHANGED notSeedVars

\* the directory a complete seed of an empty directory produces
Seeded ==
    [f \in FileName |->
        IF f \in upstream THEN File(UpstreamDoc(f))
        ELSE IF f \in Missing(upstream, species) THEN File(BLANK_SPAWN)
        ELSE Absent]

InitSeed ==
    /\ disk \in [FileName -> {Absent, File(LocalDoc)}]
    /\ dirExists = (\E f \in FileName : disk[f] # Absent)
    /\ upstream \in SUBSET FileName
    /\ \E n \in (MaxDex - 1)..MaxDex :
          species = {f \in FileName : f.name = Names[1] /\ f.dex <= n}
    /\ seedPc = "idle"
    /\ seedOp = "none"
    /\ existing_files = {}
    /\ fetched = {}
    /\ before = disk
    /\ beforeExists = dirExists
    /\ cleanSeed = FALSE
    /\ runs = 0

\* no seed call is made
SeedIdle ==
    /\ upstream = {}
    /\ species = {}
    /\ seedPc = "off"
    /\ seedOp = "none"
    /\ existing_files = {}
    /\ fetched = {}
    /\ before = [f \in FileName |-> Absent]
    /\ beforeExists = FALSE
    /\ cleanSeed = FALSE
    /\ runs = 0

\* no seed call is made and the directory is not looked at
SeedOff ==
    /\ disk = [f \in FileName |-> Absent]
    /\ dirExists = FALSE
    /\ SeedIdle

NextSeed ==
    \/ reset
    \/ get_default
    \/ download_spawn_pool
    \/ download_spawn_pool_fails
    \/ fetch_all_species
    \/ fetch_all_species_fails
    \/ create_blank_spawns
    \/ create_blank_spawns_fails
    \/ seed_return

-----------------------------------------------------------------------------
(* Text and numbers.  A Tk StringVar, a Text widget line and a Streamlit     *)
(* text input hold a string; str(), int(), float() and strip() convert.     *)

\* str.strip(): the padded spellings of the words the model pads, and the
\* word each one strips to
Words == {"plains", "worm", "7", "15", "", "fabric", "forge"}

Pad(s) == " " \o s \o " "

Padded(w) == {Pad(w), " " \o w, w \o " "}

PaddedWords == UNION {Padded(w) : w \in Words}

Stripped == [s \in PaddedWords |-> CHOOSE w \in Words : s \in Padded(w)]

Strip(s) == IF s \in PaddedWords THEN Stripped[s] ELSE s

\* str(n) of an int
StrInt(n) == ToString(n)

\* the JSON string "abc" in a field that holds a number is written
\* NotNumber, an integer outside every range of numbers drawn
NotNumber == 0 - 999

\* str(x) of a float, x counted in tenths: 15 is "1.5"; str() of a string
\* is the string
StrFloat(x) ==
    IF x = NotNumber THEN "abc"
    ELSE IF x < 0 THEN "-" \o ToString((-x) \div 10) \o "." \o ToString((-x) % 10)
    ELSE ToString(x \div 10) \o "." \o ToString(x % 10)

IntRange == (0 - MaxNum)..MaxNum

TenthRange == (0 - 10 * MaxNum)..(10 * MaxNum)

\* the texts int() accepts, and the number each one is
IntTexts == {StrInt(n) : n \in IntRange}

IntOf == [t \in IntTexts |-> CHOOSE n \in IntRange : StrInt(n) = t]

\* the texts with a decimal point float() accepts, and their numbers
FloatTexts == {StrFloat(x) : x \in TenthRange}

FloatOf == [t \in FloatTexts |-> CHOOSE x \in TenthRange : StrFloat(x) = t]

\* int(t) returns (it raises ValueError otherwise); surrounding blanks are
\* accepted, a decimal point is not
IsInt(t) == Strip(t) \in IntTexts

int(t) == IntOf[Strip(t)]

\* float(t) returns; "2" and "2.0" are both accepted
IsFloat(t) == IsInt(t) \/ Strip(t) \in FloatTexts

float(t) == IF IsInt(t) THEN 10 * int(t) ELSE FloatOf[Strip(t)]

\* a JSON number 3 where a string is expected is written Num3; str() of it
\* is "3", str() of a string is the string
Num3 == "#3"

PyStr(v) == IF v = Num3 THEN "3" ELSE v

\* [f(x) for x in seq if x] after x.strip()
RECURSIVE StripNonEmpty(_)
StripNonEmpty(seq) ==
    IF seq = <<>> THEN <<>>
    ELSE IF Strip(Head(seq)) = "" THEN StripNonEmpty(Tail(seq))
    ELSE <<Strip(Head(seq))>> \o StripNonEmpty(Tail(seq))

-----------------------------------------------------------------------------
(* The schema constants of exe.py and app.py (the two files agree) *)

BUCKETS == <<"common", "uncommon", "rare", "ultra-rare">>

SPAWN_TYPES == <<"pokemon", "pokemon-herd", "npc">>

POSITION_TYPES ==
    <<"grounded", "submerged", "surface", "seafloor", "lavafloor", "fishing">>

PRESET_OPTIONS ==
    <<"ancient_city", "derelict", "desert_pyramid", "end_city", "foliage",
     "illager_structures", "jungle_pyramid", "lava", "mansion",
     "mansion_bedrooms", "mansion_dining", "natural", "nether_fossil",
     "nether_structures", "ocean_monument", "ocean_ruins", "pillager_outpost",
     "redstone", "ruined_portal", "saccharine_tree", "salt", "stronghold",
     "trail_ruins", "treetop", "urban", "water", "webs", "wild">>

TIME_RANGES ==
    <<"", "any", "day", "night", "morning", "noon", "afternoon",
      "evening", "midnight", "predawn", "dawn", "dusk", "twilight">>

MOON_PHASES ==
    <<"", "full", "new", "crescent", "gibbous", "quarter", "waxing", "waning">>

CONDITION_BOOL_FIELDS ==
    {"canSeeSky", "isRaining", "isThundering", "isSlimeChunk", "fluidIsSource"}

CONDITION_INT_FIELDS ==
    {"minSkyLight", "maxSkyLight", "minLight", "maxLight",
     "minY", "maxY", "minX", "maxX", "minZ", "maxZ",
     "minLureLevel", "maxLureLevel",
     "minHeight", "maxHeight", "minDepth", "maxDepth"}

CONDITION_LIST_FIELDS ==
    {"biomes", "structures", "neededNearbyBlocks", "neededBaseBlocks",
     "dimensions", "markers"}

CONDITION_STRING_FIELDS == {"bait", "rodType", "rod", "fluid"}

Elems(seq) == {seq[i] : i \in 1..Len(seq)}

\* OPTIONS[OPTIONS.index(v) if v in OPTIONS else 0]
OptionOr0(options, v) == IF v \in Elems(options) THEN v ELSE options[1]

-----------------------------------------------------------------------------
(* exe.py: ConditionEditor *)

\* ConditionEditor._build: the editor's variables
ConditionEditor(cond) ==
    [time_var |-> Get(cond, "timeRange", ""),
     moon_var |-> PyStr(Get(cond, "moonPhase", "")),
     bool_vars |-> [f \in CONDITION_BOOL_FIELDS |-> Get(cond, f, FALSE)],
     int_vars |-> [f \in CONDITION_INT_FIELDS |->
                     [var |-> IF Has(cond, f) THEN StrInt(cond[f]) ELSE "",
                      had_value |-> Has(cond, f)]],
     list_texts |-> [f \in CONDITION_LIST_FIELDS |-> Get(cond, f, <<>>)],
     str_vars |-> [f \in CONDITION_STRING_FIELDS |-> Get(cond, f, "")]]

\* ConditionEditor.get_data: whether an integer field is written
IntFieldKept_ignoring_had_value(iv) ==
    /\ Strip(iv.var) # ""
    /\ IsInt(iv.var)
    /\ int(iv.var) # 0

\* ... and every integer being written, zero included
IntFieldKept_any_integer(iv) ==
    /\ Strip(iv.var) # ""
    /\ IsInt(iv.var)

\* ConditionEditor.get_data: whether an integer field is written, kept
\* only when the source had a value
IntFieldKept_had_value_only(iv) ==
    /\ Strip(iv.var) # ""
    /\ IsInt(iv.var)
    /\ iv.had_value

\* ConditionEditor.get_data: the text is an integer, and it is not zero or
\* the source had a value
IntFieldKept(iv) ==
    /\ Strip(iv.var) # ""
    /\ IsInt(iv.var)
    /\ (iv.had_value \/ int(iv.var) # 0)

\* ConditionEditor.get_data
ConditionEditor_get_data(ed) ==
    LET keys ==
            {k \in {"timeRange"} : ed.time_var # ""}
            \cup {k \in {"moonPhase"} : ed.moon_var # ""}
            \cup {f \in CONDITION_BOOL_FIELDS : ed.bool_vars[f]}
            \cup {f \in CONDITION_INT_FIELDS : IntFieldKept(ed.int_vars[f])}
            \cup {f \in CONDITION_LIST_FIELDS :
                     StripNonEmpty(ed.list_texts[f]) # <<>>}
            \cup {f \in CONDITION_STRING_FIELDS : Strip(ed.str_vars[f]) # ""}
    IN  [k \in keys |->
            IF k = "timeRange" THEN ed.time_var
            ELSE IF k = "moonPhase" THEN ed.moon_var
            ELSE IF k \in CONDITION_BOOL_FIELDS THEN TRUE
            ELSE IF k \in CONDITION_INT_FIELDS THEN int(ed.int_vars[k].var)
            ELSE IF k \in CONDITION_LIST_FIELDS
                 THEN StripNonEmpty(ed.list_texts[k])
            ELSE Strip(ed.str_vars[k])]

-----------------------------------------------------------------------------
(* app.py: render_condition.  ss is st.session_state, a function from the  *)
(* widget keys to the widgets' values; a widget whose key is in ss returns *)
(* that value, any other returns the default it is given.                  *)

Widget(ss, key, default) == IF key \in DOMAIN ss THEN ss[key] ELSE default

CondFields ==
    {"timeRange", "moonPhase"} \cup CONDITION_BOOL_FIELDS
    \cup CONDITION_INT_FIELDS \cup CONDITION_LIST_FIELDS
    \cup CONDITION_STRING_FIELDS

\* the default each widget of render_condition is given
CondDefault(cond, f) ==
    IF f = "timeRange" THEN OptionOr0(TIME_RANGES, Get(cond, f, ""))
    ELSE IF f = "moonPhase" THEN OptionOr0(MOON_PHASES, PyStr(Get(cond, f, "")))
    ELSE IF f \in CONDITION_BOOL_FIELDS THEN Get(cond, f, FALSE)
    ELSE IF f \in CONDITION_INT_FIELDS THEN Get(cond, f, 0)
    ELSE IF f \in CONDITION_LIST_FIELDS THEN Get(cond, f, <<>>)
    ELSE Get(cond, f, "")

\* the value of the widget of field f
CondWidget(cond, kp, ss, f) == Widget(ss, kp \o "_" \o f, CondDefault(cond, f))

\* the widgets render_condition instantiates, with their values
render_condition_widgets(cond, kp, ss) ==
    [k \in {kp \o "_" \o f : f \in CondFields} |->
        LET f == CHOOSE g \in CondFields : k = kp \o "_" \o g
        IN  CondWidget(cond, kp, ss, f)]

\* render_condition: the dict it returns
render_condition(cond, kp, ss) ==
    LET val(f) == CondWidget(cond, kp, ss, f)
        keys ==
            {f \in {"timeRange", "moonPhase"} : val(f) # ""}
            \cup {f \in CONDITION_BOOL_FIELDS : val(f)}
            \cup {f \in CONDITION_INT_FIELDS : Has(cond, f) \/ val(f) # 0}
            \cup {f \in CONDITION_LIST_FIELDS : StripNonEmpty(val(f)) # <<>>}
            \cup {f \in CONDITION_STRING_FIELDS : val(f) # ""}
    IN  [k \in keys |->
            IF k \in CONDITION_LIST_FIELDS THEN StripNonEmpty(val(k))
            ELSE val(k)]

-----------------------------------------------------------------------------
(* The condition codec on its own: a condition object is decoded into one  *)
(* front-end's editor, edited, and encoded and decoded again.              *)

\* the condition objects a file may hold: known fields (absent, set, with
\* explicit false and zero, padded), an enum value outside the vocabulary,
\* a numeric moonPhase and a key the editors do not know
Optional(k, vals) == {EmptyObj} \cup {k :> v : v \in vals}

RawConditions ==
    {a @@ b @@ c @@ d @@ e @@ f @@ g :
        a \in Optional("timeRange", {"day", "weird"}),
        b \in Optional("moonPhase", {"full", Num3}),
        c \in Optional("canSeeSky", {TRUE, FALSE}),
        d \in Optional("minSkyLight", {0, 7}),
        e \in Optional("biomes", {<<"plains">>, <<Pad("plains")>>}),
        f \in Optional("bait", {"worm", Pad("worm")}),
        g \in Optional("experimental", {"x"})}

CondKey == "c"

NoSession == EmptyObj

\* the texts a user types into an entry of the desktop condition editor
TypedTexts == {"", "0", "7", Pad("7"), "abc", "1.5"}

TypedLines == {<<>>, <<"plains">>, <<Pad("plains"), "">>}

TypedStrings == {"", "worm", Pad("worm")}

InitCond ==
    /\ condFront \in {"exe", "app"}
    /\ condSrc \in RawConditions
    /\ condPhase = "source"
    /\ condEd = ConditionEditor(EmptyObj)
    /\ condSs = NoSession
    /\ condEdits = 0

CondOff ==
    /\ condFront = "none"
    /\ condSrc = EmptyObj
    /\ condPhase = "off"
    /\ condEd = ConditionEditor(EmptyObj)
    /\ condSs = NoSession
    /\ condEdits = 0

\* decode: ConditionEditor(parent, cond) / the first run of render_condition
CondBuild ==
    /\ condPhase = "source"
    /\ condPhase' = "editing"
    /\ condEdits' = 0
    /\ IF condFront = "exe"
       THEN /\ condEd' = ConditionEditor(condSrc)
            /\ UNCHANGED condSs
       ELSE /\ condSs' = render_condition_widgets(condSrc, CondKey, NoSession)
            /\ UNCHANGED condEd
    /\ UNCHANGED <<condFront, condSrc>>
    /\ UNCHANGED notCondVars

\* the user changes one widget of the desktop editor
CondEditExe ==
    /\ condPhase = "editing" /\ condFront = "exe"
    /\ condEdits < MaxCondEdits
    /\ condEdits' = condEdits + 1
    /\ \/ \E v \in {"", "day", "night"} :
             condEd' = [condEd EXCEPT !.time_var = v]
       \/ condEd' = [condEd EXCEPT !.bool_vars["canSeeSky"] = ~@]
       \/ \E t \in TypedTexts :
             condEd' = [condEd EXCEPT !.int_vars["minSkyLight"].var = t]
       \/ \E l \in TypedLines :
             condEd' = [condEd EXCEPT !.list_texts["biomes"] = l]
       \/ \E t \in TypedStrings :
             condEd' = [condEd EXCEPT !.str_vars["bait"] = t]
    /\ UNCHANGED <<condFront, condSrc, condPhase, condSs>>
    /\ UNCHANGED notCondVars

\* the user changes one widget of the web form
CondEditApp ==
    /\ condPhase = "editing" /\ condFront = "app"
    /\ condEdits < MaxCondEdits
    /\ condEdits' = condEdits + 1
    /\ \/ \E v \in {"", "day", "night"} :
             condSs' = [condSs EXCEPT ![CondKey \o "_timeRange"] = v]
       \/ condSs' = [condSs EXCEPT ![CondKey \o "_canSeeSky"] = ~@]
       \/ \E n \in {0, 7} :
             condSs' = [condSs EXCEPT ![CondKey \o "_minSkyLight"] = n]
       \/ \E l \in TypedLines :
             condSs' = [condSs EXCEPT ![CondKey \o "_biomes"] = l]
       \/ \E t \in TypedStrings :
             condSs' = [condSs EXCEPT ![CondKey \o "_bait"] = t]
    /\ UNCHANGED <<condFront, condSrc, condPhase, condEd>>
    /\ UNCHANGED notCondVars

\* encode and decode again: the condition is saved and the file is reopened
CondReload ==
    /\ condPhase = "editing"
    /\ condEdits' = 0
    /\ IF condFront = "exe"
       THEN /\ condSrc' = ConditionEditor_get_data(condEd)
            /\ condEd' = ConditionEditor(condSrc')
            /\ UNCHANGED condSs
       ELSE /\ condSrc' = render_condition(condSrc, CondKey, condSs)
            /\ condSs' = render_condition_widgets(condSrc', CondKey, NoSession)
            /\ UNCHANGED condEd
    /\ UNCHANGED <<condFront, condPhase>>
    /\ UNCHANGED notCondVars

NextCond ==
    \/ CondBuild
    \/ CondEditExe
    \/ CondEditApp
    \/ CondReload

-----------------------------------------------------------------------------
(* exe.py: the editors of one document.  Every editor and every drop row   *)
(* is a widget of its own; `widget` (`row` for a drop row) stands for the  *)
(* widget's identity: [new |-> FALSE, n |-> i] is the i-th one built from  *)
(* the loaded data, [new |-> TRUE, n |-> k] the k-th one the user added.   *)

FromFile(i) == [new |-> FALSE, n |-> i]

Added(k) == [new |-> TRUE, n |-> k]

\* list.remove(x) and a wrong removal: the last element goes
ListRemove_last(seq, x) == SubSeq(seq, 1, Len(seq) - 1)

\* list.remove(x): the first element equal to x is removed; widgets are
\* equal only to themselves
ListRemove(seq, x) ==
    LET j == CHOOSE i \in 1..Len(seq) :
                 seq[i] = x /\ \A h \in 1..(i - 1) : seq[h] # x
    IN  SubSeq(seq, 1, j - 1) \o SubSeq(seq, j + 1, Len(seq))

\* float(text), were the fallback 0.0 whatever the field
FloatOr_zero(t, d) == IF IsFloat(t) THEN float(t) ELSE 0

\* float(text), with the given fallback on ValueError
FloatOr(t, d) == IF IsFloat(t) THEN float(t) ELSE d

\* int(text), with the given fallback on ValueError
IntOr(t, d) == IF IsInt(t) THEN int(t) ELSE d

\* WeightMultiplierEditor.__init__
WeightMultiplierEditor(wm, w) ==
    [widget |-> w,
     mult_var |-> StrFloat(Get(wm, "multiplier", 10)),
     cond_editor |-> ConditionEditor(Get(wm, "condition", EmptyObj))]

\* WeightMultiplierEditor.get_data, were an empty condition left out as it
\* is left out of a spawn
WeightMultiplierEditor_get_data_dropping_empty(ed) ==
    ("multiplier" :> FloatOr(ed.mult_var, 10))
    @@ (IF ConditionEditor_get_data(ed.cond_editor) # EmptyObj
        THEN "condition" :> ConditionEditor_get_data(ed.cond_editor)
        ELSE EmptyObj)

\* WeightMultiplierEditor.get_data
WeightMultiplierEditor_get_data(ed) ==
    [multiplier |-> FloatOr(ed.mult_var, 10),
     condition |-> ConditionEditor_get_data(ed.cond_editor)]

\* HerdPokemonEditor.__init__
HerdPokemonEditor(hp, w) ==
    [widget |-> w,
     pokemon_var |-> Get(hp, "pokemon", ""),
     level_var |-> Get(hp, "levelRange", ""),
     weight_var |-> StrFloat(Get(hp, "weight", 10)),
     leader_var |-> Get(hp, "isLeader", FALSE),
     max_times_var |-> StrInt(Get(hp, "maxTimes", 0)),
     offset_var |-> Get(hp, "levelRangeOffset", "")]

\* HerdPokemonEditor.get_data
HerdPokemonEditor_get_data(ed) ==
    [pokemon |-> ed.pokemon_var,
     levelRange |-> ed.level_var,
     weight |-> FloatOr(ed.weight_var, 10),
     isLeader |-> ed.leader_var]
    @@ (IF IntOr(ed.max_times_var, 0) > 0
        THEN "maxTimes" :> int(ed.max_times_var) ELSE EmptyObj)
    @@ (IF Strip(ed.offset_var) # ""
        THEN "levelRangeOffset" :> Strip(ed.offset_var) ELSE EmptyObj)

\* DropsEditor._add_entry: the row's variables
DropRow(entry, r) ==
    [row |-> r,
     item |-> Get(entry, "item", ""),
     qr |-> Get(entry, "quantityRange", ""),
     pct |-> StrFloat(Get(entry, "percentage", 0))]

\* DropsEditor._add_entry(None): the entry a new row is built from
DefaultDropEntry == [item |-> "", percentage |-> 0]

\* DropsEditor.__init__; has_drops is "drops is not None"
DropsEditor(has_drops, drops) ==
    LET entries == Get(drops, "entries", <<>>)
    IN  [enabled_var |-> has_drops,
         amount_var |-> StrInt(Get(drops, "amount", 1)),
         entry_widgets |->
            IF has_drops
            THEN [i \in 1..Len(entries) |-> DropRow(entries[i], FromFile(i))]
            ELSE <<>>]

\* DropsEditor.get_data: one row's entry
DropRow_get_data(wd) ==
    ("item" :> Strip(wd.item))
    @@ (IF Strip(wd.qr) # ""
        THEN "quantityRange" :> Strip(wd.qr) ELSE EmptyObj)
    @@ (IF FloatOr(wd.pct, 0) > 0
        THEN "percentage" :> float(wd.pct) ELSE EmptyObj)

\* DropsEditor.get_data, were every row encoded
DropEntries_keeping_all(rows) ==
    [i \in 1..Len(rows) |-> DropRow_get_data(rows[i])]

\* DropsEditor.get_data: the rows whose item is not empty, in order
RECURSIVE DropEntries(_)
DropEntries(rows) ==
    IF rows = <<>> THEN <<>>
    ELSE IF Strip(Head(rows).item) = "" THEN DropEntries(Tail(rows))
    ELSE <<DropRow_get_data(Head(rows))>> \o DropEntries(Tail(rows))

\* DropsEditor.get_data, when it does not return None
DropsEditor_get_data(ed) ==
    [amount |-> IntOr(ed.amount_var, 1),
     entries |-> DropEntries(ed.entry_widgets)]

\* SpawnEditor._build: the multiplier list, the singular object left aside
WeightMultipliersOf_plural_only(spawn) == Get(spawn, "weightMultipliers", <<>>)

\* SpawnEditor._build: the list the multiplier editors are built from
WeightMultipliersOf(spawn) ==
    LET wms == Get(spawn, "weightMultipliers", <<>>)
    IN  IF Has(spawn, "weightMultiplier") /\ spawn["weightMultiplier"] # EmptyObj
           /\ wms = <<>>
        THEN <<spawn["weightMultiplier"]>>
        ELSE wms

\* SpawnEditor._build
SpawnEditor(spawn, w) ==
    LET type == Get(spawn, "type", "pokemon")
        is_herd == type = "pokemon-herd"
        herd == Get(spawn, "herdablePokemon", <<>>)
        wms == WeightMultipliersOf(spawn)
    IN  [widget |-> w,
         id_var |-> Get(spawn, "id", ""),
         type_var |-> type,
         pokemon_var |-> Get(spawn, "pokemon", ""),
         presets_list |-> Get(spawn, "presets", <<>>),
         pos_var |-> Get(spawn, "spawnablePositionType", "grounded"),
         bucket_var |-> Get(spawn, "bucket", "common"),
         level_var |-> IF is_herd
                       THEN Get(spawn, "levelRange", Get(spawn, "level", ""))
                       ELSE Get(spawn, "level", ""),
         weight_var |-> StrFloat(Get(spawn, "weight", 10)),
         herd_size_var |-> StrInt(Get(spawn, "maxHerdSize", 5)),
         herd_dist_var |-> StrFloat(Get(spawn, "minDistanceBetweenSpawns", 15)),
         herd_editors |->
            IF is_herd
            THEN [i \in 1..Len(herd) |-> HerdPokemonEditor(herd[i], FromFile(i))]
            ELSE <<>>,
         wm_editors |->
            [i \in 1..Len(wms) |-> WeightMultiplierEditor(wms[i], FromFile(i))],
         cond_editor |-> ConditionEditor(Get(spawn, "condition", EmptyObj)),
         anti_editor |-> ConditionEditor(Get(spawn, "anticondition", EmptyObj)),
         drops_editor |->
            DropsEditor(Has(spawn, "drops"), Get(spawn, "drops", EmptyObj))]

\* SpawnEditor.get_data
SpawnEditor_get_data(ed) ==
    LET is_herd == ed.type_var = "pokemon-herd"
        wm_data == [i \in 1..Len(ed.wm_editors) |->
                       WeightMultiplierEditor_get_data(ed.wm_editors[i])]
        cond == ConditionEditor_get_data(ed.cond_editor)
        anti == ConditionEditor_get_data(ed.anti_editor)
    IN  [id |-> ed.id_var, type |-> ed.type_var,
         spawnablePositionType |-> ed.pos_var, bucket |-> ed.bucket_var,
         weight |-> FloatOr(ed.weight_var, 10)]
        @@ (IF is_herd THEN "levelRange" :> ed.level_var
            ELSE [pokemon |-> ed.pokemon_var, level |-> ed.level_var])
        @@ (IF ed.presets_list # <<>>
            THEN "presets" :> ed.presets_list ELSE EmptyObj)
        @@ (IF is_herd
            THEN [maxHerdSize |-> IntOr(ed.herd_size_var, 5),
                  minDistanceBetweenSpawns |-> FloatOr(ed.herd_dist_var, 15),
                  herdablePokemon |->
                     [i \in 1..Len(ed.herd_editors) |->
                         HerdPokemonEditor_get_data(ed.herd_editors[i])]]
            ELSE EmptyObj)
        @@ (IF wm_data # <<>>
            THEN "weightMultipliers" :> wm_data ELSE EmptyObj)
        @@ (IF cond # EmptyObj THEN "condition" :> cond ELSE EmptyObj)
        @@ (IF anti # EmptyObj THEN "anticondition" :> anti ELSE EmptyObj)
        @@ (IF ed.drops_editor.enabled_var
            THEN "drops" :> DropsEditor_get_data(ed.drops_editor)
            ELSE EmptyObj)

\* ", ".join(mods): the pieces between the commas of the entry's text
JoinComma(mods) ==
    [i \in 1..Len(mods) |-> IF i = 1 THEN mods[i] ELSE " " \o mods[i]]

\* CobblemonSpawnEditor._load_editor: the top-level variables
TopFields(data) ==
    [set |-> TRUE,
     enabled_var |-> Get(data, "enabled", TRUE),
     installed_var |-> JoinComma(Get(data, "neededInstalledMods", <<>>)),
     uninstalled_var |-> JoinComma(Get(data, "neededUninstalledMods", <<>>))]

\* before the first load the three variables do not exist
NoTopFields ==
    [set |-> FALSE, enabled_var |-> TRUE,
     installed_var |-> <<>>, uninstalled_var |-> <<>>]

\* CobblemonSpawnEditor._load_editor: the spawn editors
SpawnEditors(data) ==
    LET spawns == Get(data, "spawns", <<>>)
    IN  [i \in 1..Len(spawns) |-> SpawnEditor(spawns[i], FromFile(i))]

\* CobblemonSpawnEditor._collect_data
_collect_data(top, editors) ==
    [enabled |-> top.enabled_var,
     neededInstalledMods |-> StripNonEmpty(top.installed_var),
     neededUninstalledMods |-> StripNonEmpty(top.uninstalled_var),
     spawns |-> [i \in 1..Len(editors) |-> SpawnEditor_get_data(editors[i])]]

\* CobblemonSpawnEditor._add_spawn: the entry a new spawn editor is built from
new_spawn(file, n) ==
    [id |-> file.name \o "-" \o ToString(n),
     pokemon |-> file.name,
     presets |-> <<"natural">>,
     type |-> "pokemon",
     spawnablePositionType |-> "grounded",
     bucket |-> "common",
     level |-> "1-50",
     weight |-> 10,
     condition |-> EmptyObj]

\* SpawnEditor._add_herd_member(None): the entry a new member is built from
DefaultHerdMember == [pokemon |-> "", levelRange |-> "1-10", weight |-> 10]

\* SpawnEditor._add_weight_multiplier(None)
DefaultWeightMultiplier == [multiplier |-> 10, condition |-> EmptyObj]

-----------------------------------------------------------------------------
(* exe.py: one session of the desktop editor on a directory that exists    *)

\* the record of the end-to-end scenario: no mod lists, no presets
PidgeyDoc ==
    [enabled |-> TRUE,
     spawns |-> <<[id |-> "pidgey-1", type |-> "pokemon", pokemon |-> "pidgey",
                   bucket |-> "common", spawnablePositionType |-> "grounded",
                   level |-> "1-10", weight |-> 10,
                   condition |-> [biomes |-> <<"plains">>, minSkyLight |-> 7]]>>]

\* a herd spawn with two members, two multipliers and two drop entries
HerdDoc ==
    [enabled |-> TRUE,
     neededInstalledMods |-> <<"fabric">>,
     neededUninstalledMods |-> <<>>,
     spawns |->
        <<[id |-> "pidgey-herd-1", type |-> "pokemon-herd",
           presets |-> <<"natural">>,
           bucket |-> "common", spawnablePositionType |-> "grounded",
           levelRange |-> "1-10", weight |-> 10,
           maxHerdSize |-> 5, minDistanceBetweenSpawns |-> 15,
           herdablePokemon |->
              <<[pokemon |-> "pidgey", levelRange |-> "1-10", weight |-> 10,
                 isLeader |-> TRUE],
                [pokemon |-> "pidgey", levelRange |-> "5-15", weight |-> 20,
                 isLeader |-> FALSE, maxTimes |-> 2]>>,
           weightMultipliers |->
              <<[multiplier |-> 20, condition |-> [timeRange |-> "day"]],
                [multiplier |-> 5, condition |-> EmptyObj]>>,
           drops |->
              [amount |-> 1,
               entries |-> <<[item |-> "feather", quantityRange |-> "1-2",
                              percentage |-> 25],
                             [item |-> "seed"]>>]]>>]

\* the directory at start: two documents and a file that is not valid JSON
DeskDisk ==
    [f \in FileName |->
        IF f = [dex |-> 1, name |-> "pidgey"] THEN File(PidgeyDoc)
        ELSE IF f = [dex |-> 1, name |-> "pidgey_herd"] THEN File(HerdDoc)
        ELSE IF f = [dex |-> MaxDex, name |-> "pidgey"] THEN Corrupt
        ELSE Absent]

\* self.current_file = None
NoFile == [dex |-> 0, name |-> "None"]

\* the spawn list has no owning spawn editor
NoOwner == [new |-> FALSE, n |-> 0]

NotLoaded == [valid |-> FALSE, doc |-> EmptyObj]

\* load_pokemon_files: glob(SPAWN_DIR/*.json)
load_pokemon_files == {f \in FileName : disk[f] # Absent}

\* the identity of the next widget the user adds
NextAdded == Added(Cardinality(deskAdded) + 1)

ListEntry(list, owner, id) == [list |-> list, owner |-> owner, id |-> id]

\* CobblemonSpawnEditor.__init__ followed by _ensure_data with the directory
\* in place: _load_files has run
InitDesk ==
    /\ disk = DeskDisk
    /\ dirExists = TRUE
    /\ files = load_pokemon_files
    /\ current_file = NoFile
    /\ top_fields = NoTopFields
    /\ spawn_editors = <<>>
    /\ deskLoaded = NotLoaded
    /\ deskAdded = {}
    /\ deskDeleted = {}
    /\ deskDirty = FALSE
    /\ deskOps = 0
    /\ deskSaves = 0
    /\ deskFailed = {}

DeskOff ==
    /\ files = {}
    /\ current_file = NoFile
    /\ top_fields = NoTopFields
    /\ spawn_editors = <<>>
    /\ deskLoaded = NotLoaded
    /\ deskAdded = {}
    /\ deskDeleted = {}
    /\ deskDirty = FALSE
    /\ deskOps = 0
    /\ deskSaves = 0
    /\ deskFailed = {}

\* _on_select followed by _load_editor: current_file is set first, the
\* editors are cleared, and load_spawn_data raises on a file that does not
\* parse, which ends the callback there
_on_select ==
    \E f \in files :
        /\ f # current_file
        /\ current_file' = f
        /\ deskAdded' = {}
        /\ deskDeleted' = {}
        /\ deskDirty' = FALSE
        /\ IF disk[f].kind = "doc"
           THEN /\ top_fields' = TopFields(disk[f].doc)
                /\ spawn_editors' = SpawnEditors(disk[f].doc)
                /\ deskLoaded' = [valid |-> TRUE, doc |-> disk[f].doc]
                /\ UNCHANGED deskFailed
           ELSE /\ spawn_editors' = <<>>
                /\ deskLoaded' = NotLoaded
                /\ deskFailed' = deskFailed \cup {[file |-> f, content |-> disk[f]]}
                /\ UNCHANGED top_fields
        /\ UNCHANGED <<files, deskOps, deskSaves, disk>>
        /\ UNCHANGED notDeskVars

\* the frame of a user action on the loaded editors
DeskEdit ==
    /\ deskOps < MaxOps
    /\ deskOps' = deskOps + 1
    /\ deskDirty' = TRUE
    /\ UNCHANGED <<files, current_file, deskLoaded, deskSaves, deskFailed, disk>>
    /\ UNCHANGED notDeskVars

\* the user ticks or unticks "Enabled"
EditEnabled ==
    /\ deskLoaded.valid
    /\ top_fields' = [top_fields EXCEPT !.enabled_var = ~@]
    /\ UNCHANGED <<spawn_editors, deskAdded, deskDeleted>>
    /\ DeskEdit

\* CobblemonSpawnEditor._add_spawn
_add_spawn ==
    /\ current_file # NoFile
    /\ spawn_editors' =
          Append(spawn_editors,
                 SpawnEditor(new_spawn(current_file, Len(spawn_editors) + 1),
                             NextAdded))
    /\ deskAdded' = deskAdded \cup {ListEntry("spawns", NoOwner, NextAdded)}
    /\ UNCHANGED <<top_fields, deskDeleted>>
    /\ DeskEdit

\* CobblemonSpawnEditor._delete_spawn
_delete_spawn ==
    \E p \in 1..Len(spawn_editors) :
        /\ spawn_editors' = ListRemove(spawn_editors, spawn_editors[p])
        /\ deskDeleted' = deskDeleted
              \cup {ListEntry("spawns", NoOwner, spawn_editors[p].widget)}
        /\ UNCHANGED <<top_fields, deskAdded>>
        /\ DeskEdit

\* SpawnEditor._add_herd_member; the button is shown for a herd spawn
_add_herd_member ==
    \E p \in 1..Len(spawn_editors) :
        /\ spawn_editors[p].type_var = "pokemon-herd"
        /\ spawn_editors' = [spawn_editors EXCEPT ![p].herd_editors =
              Append(@, HerdPokemonEditor(DefaultHerdMember, NextAdded))]
        /\ deskAdded' = deskAdded
              \cup {ListEntry("herd", spawn_editors[p].widget, NextAdded)}
        /\ UNCHANGED <<top_fields, deskDeleted>>
        /\ DeskEdit

\* SpawnEditor._delete_herd_member
_delete_herd_member ==
    \E p \in 1..Len(spawn_editors) :
        \E h \in 1..Len(spawn_editors[p].herd_editors) :
            LET editor == spawn_editors[p].herd_editors[h]
            IN  /\ spawn_editors[p].type_var = "pokemon-herd"
                /\ spawn_editors' = [spawn_editors EXCEPT ![p].herd_editors =
                      ListRemove(@, editor)]
                /\ deskDeleted' = deskDeleted
                      \cup {ListEntry("herd", spawn_editors[p].widget,
                                      editor.widget)}
                /\ UNCHANGED <<top_fields, deskAdded>>
                /\ DeskEdit

\* SpawnEditor._add_weight_multiplier
_add_weight_multiplier ==
    \E p \in 1..Len(spawn_editors) :
        /\ spawn_editors' = [spawn_editors EXCEPT ![p].wm_editors =
              Append(@, WeightMultiplierEditor(DefaultWeightMultiplier,
                                               NextAdded))]
        /\ deskAdded' = deskAdded
              \cup {ListEntry("wm", spawn_editors[p].widget, NextAdded)}
        /\ UNCHANGED <<top_fields, deskDeleted>>
        /\ DeskEdit

\* SpawnEditor._delete_wm
_delete_wm ==
    \E p \in 1..Len(spawn_editors) :
        \E h \in 1..Len(spawn_editors[p].wm_editors) :
            LET editor == spawn_editors[p].wm_editors[h]
            IN  /\ spawn_editors' = [spawn_editors EXCEPT ![p].wm_editors =
                      ListRemove(@, editor)]
                /\ deskDeleted' = deskDeleted
                      \cup {ListEntry("wm", spawn_editors[p].widget,
                                      editor.widget)}
                /\ UNCHANGED <<top_fields, deskAdded>>
                /\ DeskEdit

\* DropsEditor._add_entry(None); the button is shown when drops are enabled
_add_entry ==
    \E p \in 1..Len(spawn_editors) :
        /\ spawn_editors[p].drops_editor.enabled_var
        /\ spawn_editors' =
              [spawn_editors EXCEPT ![p].drops_editor.entry_widgets =
                  Append(@, DropRow(DefaultDropEntry, NextAdded))]
        /\ deskAdded' = deskAdded
              \cup {ListEntry("drops", spawn_editors[p].widget, NextAdded)}
        /\ UNCHANGED <<top_fields, deskDeleted>>
        /\ DeskEdit

\* DropsEditor._delete_entry
_delete_entry ==
    \E p \in 1..Len(spawn_editors) :
        \E h \in 1..Len(spawn_editors[p].drops_editor.entry_widgets) :
            LET widget_data == spawn_editors[p].drops_editor.entry_widgets[h]
            IN  /\ spawn_editors[p].drops_editor.enabled_var
                /\ spawn_editors' =
                      [spawn_editors EXCEPT ![p].drops_editor.entry_widgets =
                          ListRemove(@, widget_data)]
                /\ deskDeleted' = deskDeleted
                      \cup {ListEntry("drops", spawn_editors[p].widget,
                                      widget_data.row)}
                /\ UNCHANGED <<top_fields, deskAdded>>
                /\ DeskEdit

\* _save: _collect_data reads the three top-level variables (AttributeError
\* before the first load), then save_spawn_data writes the document
_save ==
    /\ current_file # NoFile
    /\ top_fields.set
    /\ deskSaves < MaxSaves
    /\ deskSaves' = deskSaves + 1
    /\ disk' = [disk EXCEPT ![current_file] =
                   File(_collect_data(top_fields, spawn_editors))]
    /\ UNCHANGED <<files, current_file, top_fields, spawn_editors, deskLoaded,
                   deskAdded, deskDeleted, deskDirty, deskOps, deskFailed>>
    /\ UNCHANGED notDeskVars

\* _save when save_spawn_data raises OSError after open(path, "w") has
\* truncated the file: json.dump or f.write has written nothing or a part
_save_fails ==
    /\ current_file # NoFile
    /\ top_fields.set
    /\ deskSaves < MaxSaves
    /\ deskSaves' = deskSaves + 1
    /\ disk' = [disk EXCEPT ![current_file] = Partial]
    /\ UNCHANGED <<files, current_file, top_fields, spawn_editors, deskLoaded,
                   deskAdded, deskDeleted, deskDirty, deskOps, deskFailed>>
    /\ UNCHANGED notDeskVars

NextDesk ==
    \/ _on_select
    \/ EditEnabled
    \/ _add_spawn
    \/ _delete_spawn
    \/ _add_herd_member
    \/ _delete_herd_member
    \/ _add_weight_multiplier
    \/ _delete_wm
    \/ _add_entry
    \/ _delete_entry
    \/ _save
    \/ _save_fails

-----------------------------------------------------------------------------
(* app.py: one run of the script.  Every key of a file's editor is fk, the  *)
(* file name with "." replaced by "_", followed by a rest such as           *)
(* "_s0_herd1_del".  Only the selected file's widgets are instantiated in a *)
(* run, so the model keeps the rest alone as the key and holds the widget   *)
(* values of the selected file only; the counts the script stores itself    *)
(* are kept per file.  At the end of a run, one ended by st.rerun()        *)
(* included, Streamlit drops the value of every widget the run has not      *)
(* instantiated, and a button is True only in the run its click triggered.  *)

\* the context of a run: widget values, stored counts, the keys of the
\* widgets instantiated so far, whether st.rerun() has been called, and the
\* key of the clicked button
Ctx(ss, plain, trig) ==
    [ss |-> ss, plain |-> plain, seen |-> {}, stop |-> FALSE, trig |-> trig]

\* widgets are instantiated with the given keys and default values
Render(x, defaults) ==
    [x EXCEPT !.ss = x.ss @@ defaults, !.seen = x.seen \cup DOMAIN defaults]

\* st.rerun()
Rerun(x) == [x EXCEPT !.stop = TRUE]

\* one statement after another: F applied to the value of v
Bind(v, F(_)) == CHOOSE r \in {F(y) : y \in {v}} : TRUE

\* load_pokemon_names: the match of r"\d+_(.+?)(?:_herd)?\.json"
BaseName(n) == IF n = "pidgey_herd" THEN "pidgey" ELSE n

load_pokemon_names == {BaseName(f.name) : f \in load_pokemon_files}

\* names[0] of the sorted names
SortedFirst(S) == CHOOSE n \in S : \A o \in S : NameIndex(n) <= NameIndex(o)

\* render_weight_multiplier
render_weight_multiplier(wm, kp, x) ==
    Bind(Render(x, ((kp \o "_mult") :> Get(wm, "multiplier", 10))
                   @@ render_condition_widgets(Get(wm, "condition", EmptyObj),
                                               kp \o "_mc", NoSession)),
         LAMBDA x1 :
            [x |-> x1,
             result |->
                [multiplier |-> x1.ss[kp \o "_mult"],
                 condition |-> render_condition(Get(wm, "condition", EmptyObj),
                                                kp \o "_mc", x1.ss)]])

\* render_herd_pokemon: the defaults of its widgets
HerdPokemonDefaults(hp, kp, names) ==
    ((kp \o "_poke") :> (IF Get(hp, "pokemon", "") \in names
                         THEN Get(hp, "pokemon", "")
                         ELSE SortedFirst(names)))
    @@ ((kp \o "_lr") :> Get(hp, "levelRange", ""))
    @@ ((kp \o "_w") :> Get(hp, "weight", 10))
    @@ ((kp \o "_leader") :> Get(hp, "isLeader", FALSE))
    @@ ((kp \o "_mt") :> Get(hp, "maxTimes", 0))
    @@ ((kp \o "_lro") :> Get(hp, "levelRangeOffset", ""))

\* render_herd_pokemon: the dict it returns
HerdPokemonResult(kp, ss) ==
    [pokemon |-> ss[kp \o "_poke"], levelRange |-> ss[kp \o "_lr"],
     weight |-> ss[kp \o "_w"], isLeader |-> ss[kp \o "_leader"]]
    @@ (IF ss[kp \o "_mt"] > 0 THEN "maxTimes" :> ss[kp \o "_mt"]
        ELSE EmptyObj)
    @@ (IF ss[kp \o "_lro"] # "" THEN "levelRangeOffset" :> ss[kp \o "_lro"]
        ELSE EmptyObj)

\* render_herd_pokemon
render_herd_pokemon(hp, kp, x) ==
    Bind(Render(x, HerdPokemonDefaults(hp, kp, load_pokemon_names)),
         LAMBDA x1 : [x |-> x1, result |-> HerdPokemonResult(kp, x1.ss)])

\* render_spawn: the loop over the herd members hi..n-1
RECURSIVE HerdLoop(_, _, _, _, _, _, _)
HerdLoop(x, herd_list, kp, hi, n, updated, to_delete) ==
    IF hi >= n THEN [x |-> x, updated |-> updated, to_delete |-> to_delete]
    ELSE Bind(Render(x, (kp \o "_herd" \o ToString(hi) \o "_del") :> FALSE),
         LAMBDA x1 :
            IF x1.ss[kp \o "_herd" \o ToString(hi) \o "_del"]
            THEN HerdLoop(x1, herd_list, kp, hi + 1, n, updated,
                          Append(to_delete, hi))
            ELSE Bind(render_herd_pokemon(
                         IF hi < Len(herd_list) THEN herd_list[hi + 1]
                         ELSE DefaultHerdMember,
                         kp \o "_herd" \o ToString(hi), x1),
                 LAMBDA r :
                    HerdLoop(r.x, herd_list, kp, hi + 1, n,
                             Append(updated, r.result), to_delete)))

\* render_spawn: the loop over the weight multipliers wi..n-1
RECURSIVE WmLoop(_, _, _, _, _, _, _)
WmLoop(x, wms, kp, wi, n, updated, to_delete) ==
    IF wi >= n THEN [x |-> x, updated |-> updated, to_delete |-> to_delete]
    ELSE Bind(Render(x, (kp \o "_wms" \o ToString(wi) \o "_del") :> FALSE),
         LAMBDA x1 :
            IF x1.ss[kp \o "_wms" \o ToString(wi) \o "_del"]
            THEN WmLoop(x1, wms, kp, wi + 1, n, updated, Append(to_delete, wi))
            ELSE Bind(render_weight_multiplier(
                         IF wi < Len(wms) THEN wms[wi + 1]
                         ELSE DefaultWeightMultiplier,
                         kp \o "_wms" \o ToString(wi), x1),
                 LAMBDA r :
                    WmLoop(r.x, wms, kp, wi + 1, n, Append(updated, r.result),
                           to_delete)))

\* render_drops: the defaults of the widgets of one entry
DropEntryDefaults(entry, ek) ==
    ((ek \o "_item") :> Get(entry, "item", ""))
    @@ ((ek \o "_qr") :> Get(entry, "quantityRange", ""))
    @@ ((ek \o "_pct") :> Get(entry, "percentage", 0))
    @@ ((ek \o "_del") :> FALSE)

\* render_drops: the entry made of the values of its widgets
DropEntryResult(ek, ss) ==
    ("item" :> ss[ek \o "_item"])
    @@ (IF ss[ek \o "_qr"] # "" THEN "quantityRange" :> ss[ek \o "_qr"]
        ELSE EmptyObj)
    @@ (IF ss[ek \o "_pct"] > 0 THEN "percentage" :> ss[ek \o "_pct"]
        ELSE EmptyObj)

\* render_drops: the loop over the entries ei..n-1
RECURSIVE DropLoop(_, _, _, _, _, _, _)
DropLoop(x, file_entries, kp, ei, n, updated, to_delete) ==
    IF ei >= n THEN [x |-> x, updated |-> updated, to_delete |-> to_delete]
    ELSE Bind(Render(x, DropEntryDefaults(
                           IF ei < Len(file_entries) THEN file_entries[ei + 1]
                           ELSE DefaultDropEntry,
                           kp \o "_entry" \o ToString(ei))),
         LAMBDA x1 :
            IF x1.ss[kp \o "_entry" \o ToString(ei) \o "_del"]
            THEN DropLoop(x1, file_entries, kp, ei + 1, n, updated,
                          Append(to_delete, ei))
            ELSE IF x1.ss[kp \o "_entry" \o ToString(ei) \o "_item"] # ""
            THEN DropLoop(x1, file_entries, kp, ei + 1, n,
                          Append(updated,
                                 DropEntryResult(kp \o "_entry" \o ToString(ei),
                                                 x1.ss)),
                          to_delete)
            ELSE DropLoop(x1, file_entries, kp, ei + 1, n, updated, to_delete))

\* render_drops: the widget keys of the entries in to_delete
DropEntryKeys(kp, to_delete) ==
    {kp \o "_entry" \o ToString(to_delete[j]) \o suffix :
        j \in 1..Len(to_delete), suffix \in {"_item", "_qr", "_pct", "_del"}}

\* a stored count, set to len(list) when the key is not in st.session_state
WithCount(x, key, n) ==
    IF key \in DOMAIN x.plain THEN x
    ELSE [x EXCEPT !.plain = (key :> n) @@ x.plain]

\* st.session_state[count_key] += d, were the count left as it is
AddToCount_unchanged(x, key, d) == x

\* st.session_state[count_key] += d
AddToCount(x, key, d) == [x EXCEPT !.plain[key] = @ + d]

\* what a part of the script yields when it has called st.rerun()
Stopped(x) == [x |-> x, none |-> FALSE, deleted |-> FALSE, updated |-> <<>>,
               result |-> EmptyObj]

\* render_drops, after the "Enable drops" checkbox
render_drops_entries(drops, kp, x) ==
    Bind(Render(WithCount(x, kp \o "_entry_count",
                          Len(Get(drops, "entries", <<>>))),
                (kp \o "_amount") :> Get(drops, "amount", 1)),
    LAMBDA x2 :
    Bind(DropLoop(x2, Get(drops, "entries", <<>>), kp, 0,
                  x2.plain[kp \o "_entry_count"], <<>>, <<>>),
    LAMBDA loop :
        IF loop.to_delete # <<>>
        THEN Stopped(Rerun(
                [AddToCount(loop.x, kp \o "_entry_count",
                            0 - Len(loop.to_delete))
                    EXCEPT !.ss = Without(@, DropEntryKeys(kp, loop.to_delete))]))
        ELSE Bind(Render(loop.x, (kp \o "_add_entry") :> FALSE),
             LAMBDA x3 :
                IF x3.trig = kp \o "_add_entry"
                THEN Stopped(Rerun(AddToCount(x3, kp \o "_entry_count", 1)))
                ELSE [x |-> x3, none |-> FALSE,
                      result |-> [amount |-> x3.ss[kp \o "_amount"],
                                  entries |-> loop.updated]])))

\* render_drops; has_drops is "drops is not None"; none is "returns None"
render_drops(has_drops, drops, kp, x) ==
    Bind(Render(x, (kp \o "_has_drops") :> has_drops),
    LAMBDA x1 :
        IF ~x1.ss[kp \o "_has_drops"]
        THEN [x |-> x1, none |-> TRUE, result |-> EmptyObj]
        ELSE render_drops_entries(
                IF has_drops THEN drops ELSE [amount |-> 1, entries |-> <<>>],
                kp, x1))

\* render_spawn: the herd members' part (lines 350-379)
render_spawn_herd(spawn, kp, x) ==
    Bind(WithCount(x, kp \o "_herd_count",
                   Len(Get(spawn, "herdablePokemon", <<>>))),
    LAMBDA x1 :
    Bind(HerdLoop(x1, Get(spawn, "herdablePokemon", <<>>), kp, 0,
                  x1.plain[kp \o "_herd_count"], <<>>, <<>>),
    LAMBDA loop :
        IF loop.to_delete # <<>>
        THEN Stopped(Rerun(AddToCount(loop.x, kp \o "_herd_count",
                                      0 - Len(loop.to_delete))))
        ELSE Bind(Render(loop.x, (kp \o "_add_herd") :> FALSE),
             LAMBDA x2 :
                IF x2.trig = kp \o "_add_herd"
                THEN Stopped(Rerun(AddToCount(x2, kp \o "_herd_count", 1)))
                ELSE [x |-> x2, updated |-> loop.updated])))

\* render_spawn: the weight multipliers' part (lines 381-417)
render_spawn_wms(spawn, kp, x) ==
    Bind(WithCount(x, kp \o "_wm_count", Len(WeightMultipliersOf(spawn))),
    LAMBDA x1 :
    Bind(WmLoop(x1, WeightMultipliersOf(spawn), kp, 0,
                x1.plain[kp \o "_wm_count"], <<>>, <<>>),
    LAMBDA loop :
        IF loop.to_delete # <<>>
        THEN Stopped(Rerun(AddToCount(loop.x, kp \o "_wm_count",
                                      0 - Len(loop.to_delete))))
        ELSE Bind(Render(loop.x, (kp \o "_add_wms") :> FALSE),
             LAMBDA x2 :
                IF x2.trig = kp \o "_add_wms"
                THEN Stopped(Rerun(AddToCount(x2, kp \o "_wm_count", 1)))
                ELSE [x |-> x2, updated |-> loop.updated])))

\* render_spawn: the defaults of the widgets after "Type" (lines 299-348)
SpawnDefaults(spawn, kp, is_herd) ==
    (IF is_herd THEN EmptyObj
     ELSE (kp \o "_pokemon") :> Get(spawn, "pokemon", ""))
    @@ ((kp \o "_presets") :> Get(spawn, "presets", <<>>))
    @@ ((kp \o "_pos") :>
           OptionOr0(POSITION_TYPES,
                     Get(spawn, "spawnablePositionType", "grounded")))
    @@ ((kp \o "_bucket") :> OptionOr0(BUCKETS, Get(spawn, "bucket", "common")))
    @@ ((kp \o "_level") :>
           Get(spawn, IF is_herd THEN "levelRange" ELSE "level",
               Get(spawn, "level", "")))
    @@ ((kp \o "_weight") :> Get(spawn, "weight", 10))
    @@ (IF is_herd
        THEN ((kp \o "_herdsize") :> Get(spawn, "maxHerdSize", 5))
             @@ ((kp \o "_herddist") :>
                    Get(spawn, "minDistanceBetweenSpawns", 15))
        ELSE EmptyObj)

\* render_spawn: the dict it returns, from the values of the widgets and
\* what the parts of the script have returned
SpawnResult(spawn, kp, ss, is_herd, herd, wms, drops) ==
    [id |-> ss[kp \o "_id"], type |-> ss[kp \o "_type"],
     spawnablePositionType |-> ss[kp \o "_pos"], bucket |-> ss[kp \o "_bucket"],
     weight |-> ss[kp \o "_weight"]]
    @@ ((IF is_herd THEN "levelRange" ELSE "level") :> ss[kp \o "_level"])
    @@ (IF is_herd
        THEN [maxHerdSize |-> ss[kp \o "_herdsize"],
              minDistanceBetweenSpawns |-> ss[kp \o "_herddist"],
              herdablePokemon |-> herd.updated]
        ELSE "pokemon" :> ss[kp \o "_pokemon"])
    @@ (IF ss[kp \o "_presets"] # <<>> THEN "presets" :> ss[kp \o "_presets"]
        ELSE EmptyObj)
    @@ (IF wms.updated # <<>> THEN "weightMultipliers" :> wms.updated
        ELSE EmptyObj)
    @@ Bind(render_condition(Get(spawn, "condition", EmptyObj),
                             kp \o "_cond", ss),
            LAMBDA c : IF c # EmptyObj THEN "condition" :> c ELSE EmptyObj)
    @@ Bind(render_condition(Get(spawn, "anticondition", EmptyObj),
                             kp \o "_anti", ss),
            LAMBDA c : IF c # EmptyObj THEN "anticondition" :> c ELSE EmptyObj)
    @@ (IF drops.none THEN EmptyObj ELSE "drops" :> drops.result)

\* render_spawn, after the widgets of the core fields
render_spawn_lists(spawn, kp, x, is_herd) ==
    Bind(IF is_herd THEN render_spawn_herd(spawn, kp, x)
         ELSE [x |-> x, updated |-> <<>>],
    LAMBDA herd :
        IF herd.x.stop THEN Stopped(herd.x)
        ELSE
    Bind(render_spawn_wms(spawn, kp, herd.x),
    LAMBDA wms :
        IF wms.x.stop THEN Stopped(wms.x)
        ELSE
    Bind(render_drops(
            Has(spawn, "drops"), Get(spawn, "drops", EmptyObj), kp \o "_drops",
            Render(wms.x,
                   render_condition_widgets(Get(spawn, "condition", EmptyObj),
                                            kp \o "_cond", NoSession)
                   @@ render_condition_widgets(
                         Get(spawn, "anticondition", EmptyObj),
                         kp \o "_anti", NoSession))),
    LAMBDA drops :
        IF drops.x.stop THEN Stopped(drops.x)
        ELSE [x |-> drops.x, deleted |-> FALSE,
              result |-> SpawnResult(spawn, kp, drops.x.ss, is_herd, herd, wms,
                                     drops)])))

\* render_spawn; deleted is the second component of what it returns
render_spawn(spawn, kp, x) ==
    Bind(Render(x, (kp \o "_delete") :> FALSE),
    LAMBDA xd :
        IF xd.ss[kp \o "_delete"]
        THEN [x |-> xd, deleted |-> TRUE, result |-> EmptyObj]
        ELSE
    Bind(Render(xd,
                ((kp \o "_id") :> Get(spawn, "id", ""))
                @@ ((kp \o "_type") :>
                       OptionOr0(SPAWN_TYPES, Get(spawn, "type", "pokemon")))),
    LAMBDA x1 :
        render_spawn_lists(
            spawn, kp,
            Render(x1, SpawnDefaults(spawn, kp,
                                     x1.ss[kp \o "_type"] = "pokemon-herd")),
            x1.ss[kp \o "_type"] = "pokemon-herd")))

\* main: the loop over the spawns i..len-1; a st.rerun() ends it
RECURSIVE SpawnLoop(_, _, _, _)
SpawnLoop(x, spawns, i, updated_spawns) ==
    IF x.stop \/ i >= Len(spawns)
    THEN [x |-> x, updated_spawns |-> updated_spawns]
    ELSE Bind(render_spawn(spawns[i + 1], "_s" \o ToString(i), x),
         LAMBDA r :
            SpawnLoop(r.x, spawns, i + 1,
                      IF r.deleted \/ r.x.stop THEN updated_spawns
                      ELSE Append(updated_spawns, r.result)))

\* main: the defaults of the widgets of the top-level fields
TopDefaults(loaded) ==
    ("_enabled" :> Get(loaded, "enabled", TRUE))
    @@ ("_installed_mods" :>
           JoinComma(Get(loaded, "neededInstalledMods", <<>>)))
    @@ ("_uninstalled_mods" :>
           JoinComma(Get(loaded, "neededUninstalledMods", <<>>)))

\* main: data after the loop over the spawns
UpdatedData(loaded, ss, updated_spawns) ==
    [enabled |-> ss["_enabled"],
     neededInstalledMods |-> StripNonEmpty(ss["_installed_mods"]),
     neededUninstalledMods |-> StripNonEmpty(ss["_uninstalled_mods"]),
     spawns |-> updated_spawns]
    @@ loaded

\* what a run leaves of the widget values: those of the widgets it has
\* instantiated
SeenState(x) == [k \in DOMAIN x.ss \cap x.seen |-> x.ss[k]]

\* main, from the load of the selected file on: what the run leaves in
\* st.session_state, the data it has collected, whether it writes the data
\* to the file, and whether it ends in st.rerun()
main_run(file, ss, plain, trig) ==
    Bind(SpawnLoop(Render(Ctx(ss, plain, trig), TopDefaults(disk[file].doc)),
                   Get(disk[file].doc, "spawns", <<>>), 0, <<>>),
    LAMBDA loop :
    Bind(UpdatedData(disk[file].doc, loop.x.ss, loop.updated_spawns),
    LAMBDA data :
        IF loop.x.stop
        THEN [ss |-> SeenState(loop.x), plain |-> loop.x.plain,
              rerun |-> TRUE, write |-> FALSE, data |-> data]
        ELSE IF trig = "_add_spawn"
        THEN [ss |-> EmptyObj, plain |-> EmptyObj, rerun |-> TRUE,
              write |-> TRUE,
              data |-> [data EXCEPT !["spawns"] =
                           Append(@, new_spawn(file, Len(@) + 1))]]
        ELSE IF trig = "_save"
        THEN [ss |-> EmptyObj, plain |-> EmptyObj, rerun |-> TRUE,
              write |-> TRUE, data |-> data]
        ELSE [ss |-> SeenState(Render(loop.x, ("_add_spawn" :> FALSE)
                                              @@ ("_save" :> FALSE))),
              plain |-> loop.x.plain, rerun |-> FALSE, write |-> FALSE,
              data |-> data]))

-----------------------------------------------------------------------------
(* app.py: one session of the web editor on a directory that exists.  The  *)
(* user acts on the page the last run has rendered; every action of the    *)
(* user makes the script run again, and st.rerun() makes it run once more. *)

\* the directory at start: the two documents
WebDisk ==
    [f \in FileName |->
        IF f = [dex |-> 1, name |-> "pidgey"] THEN File(PidgeyDoc)
        ELSE IF f = [dex |-> 1, name |-> "pidgey_herd"] THEN File(HerdDoc)
        ELSE Absent]

NoCounts == [f \in FileName |-> EmptyObj]

\* the selectbox "pokemon_select" shows the first file
InitWeb ==
    /\ disk = WebDisk
    /\ dirExists = TRUE
    /\ webSelected = [dex |-> 1, name |-> "pidgey"]
    /\ webSs = EmptyObj
    /\ webPlain = NoCounts
    /\ webTrig = ""
    /\ webPending = TRUE
    /\ webLog = <<>>
    /\ webOps = 0
    /\ webSaves = 0
    /\ webReruns = 0

WebOff ==
    /\ webSelected = NoFile
    /\ webSs = EmptyObj
    /\ webPlain = NoCounts
    /\ webTrig = ""
    /\ webPending = FALSE
    /\ webLog = <<>>
    /\ webOps = 0
    /\ webSaves = 0
    /\ webReruns = 0

\* main: one run of the script
main ==
    /\ webPending
    /\ webReruns < MaxReruns
    /\ disk[webSelected].kind = "doc"
    /\ \E r \in {main_run(webSelected, webSs, webPlain[webSelected], webTrig)} :
           /\ webSs' = r.ss
           /\ webPlain' = [webPlain EXCEPT ![webSelected] = r.plain]
           /\ webPending' = r.rerun
           /\ webReruns' = IF r.rerun THEN webReruns + 1 ELSE 0
           /\ disk' = IF r.write
                      THEN [disk EXCEPT ![webSelected] = File(r.data)]
                      ELSE disk
           /\ webSaves' = IF r.write THEN webSaves + 1 ELSE webSaves
           /\ webLog' = IF r.write THEN <<>> ELSE webLog
    /\ webTrig' = ""
    /\ UNCHANGED <<webSelected, webOps>>
    /\ UNCHANGED notWebVars

\* what every action of the user does besides its own effect
WebUser(op) ==
    /\ ~webPending
    /\ webOps < MaxWebOps
    /\ webOps' = webOps + 1
    /\ webPending' = TRUE
    /\ webLog' = Append(webLog, op)
    /\ UNCHANGED <<disk, webPlain, webSaves, webReruns>>
    /\ UNCHANGED notWebVars

\* the sub-lists of a spawn: the part of the key of an entry's widgets, and
\* the key of the button that adds an entry
WebLists ==
    {[entry |-> "_herd", add |-> "_add_herd"],
     [entry |-> "_wms", add |-> "_add_wms"],
     [entry |-> "_drops_entry", add |-> "_drops_add_entry"]}

\* the user picks another file in the selectbox "pokemon_select"; the
\* widgets of the file shown before have other keys and are not instantiated
\* in the next run
SelectFile ==
    \E f \in load_pokemon_files \ {webSelected} :
        /\ WebUser([op |-> "select", list |-> "", spawn |-> 0, index |-> 0])
        /\ webSelected' = f
        /\ webSs' = EmptyObj
        /\ webTrig' = ""

\* the user ticks the "Del" checkbox of entry i of a sub-list of spawn s
TickDel ==
    \E l \in WebLists, s \in 0..MaxIdx, i \in 0..MaxIdx :
        LET key == "_s" \o ToString(s) \o l.entry \o ToString(i) \o "_del"
        IN  /\ key \in DOMAIN webSs
            /\ ~webSs[key]
            /\ WebUser([op |-> "del", list |-> l.entry, spawn |-> s,
                        index |-> i])
            /\ webSs' = [webSs EXCEPT ![key] = TRUE]
            /\ UNCHANGED <<webSelected, webTrig>>

\* the user presses the button that adds an entry to a sub-list of spawn s
PressAdd ==
    \E l \in WebLists, s \in 0..MaxIdx :
        LET key == "_s" \o ToString(s) \o l.add
        IN  /\ key \in DOMAIN webSs
            /\ WebUser([op |-> "add", list |-> l.entry, spawn |-> s,
                        index |-> 0])
            /\ webTrig' = key
            /\ UNCHANGED <<webSelected, webSs>>

\* the user types a level range into the field of herd member i of spawn s
EditLevelRange ==
    \E s \in 0..MaxIdx, i \in 0..MaxIdx :
        LET key == "_s" \o ToString(s) \o "_herd" \o ToString(i) \o "_lr"
        IN  /\ key \in DOMAIN webSs
            /\ webSs[key] # "7-9"
            /\ WebUser([op |-> "edit", list |-> "_herd", spawn |-> s,
                        index |-> i])
            /\ webSs' = [webSs EXCEPT ![key] = "7-9"]
            /\ UNCHANGED <<webSelected, webTrig>>

\* the user presses "Add new spawn"
PressAddSpawn ==
    /\ "_add_spawn" \in DOMAIN webSs
    /\ webSaves < MaxSaves
    /\ WebUser([op |-> "add_spawn", list |-> "", spawn |-> 0, index |-> 0])
    /\ webTrig' = "_add_spawn"
    /\ UNCHANGED <<webSelected, webSs>>

\* the user presses "Save"
PressSave ==
    /\ "_save" \in DOMAIN webSs
    /\ webSaves < MaxSaves
    /\ ~webPending
    /\ webPending' = TRUE
    /\ webTrig' = "_save"
    /\ UNCHANGED <<disk, webSelected, webSs, webPlain, webLog, webOps,
                   webSaves, webReruns>>
    /\ UNCHANGED notWebVars

NextWeb ==
    \/ main
    \/ SelectFile
    \/ TickDel
    \/ PressAdd
    \/ EditLevelRange
    \/ PressAddSpawn
    \/ PressSave

-----------------------------------------------------------------------------
(* How the front-ends call the seed.  exe.py: _run_background starts a     *)
(* thread that runs reset() and, in its finally clause, schedules _finish  *)
(* on the Tk main loop.  app.py: main calls reset() in the script run and  *)
(* then st.rerun().  The steps of the seed itself are those of             *)
(* get_default_pokemons.py above.                                          *)

\* no seed call has raised yet
NoErrors == [raised |-> 0, reported |-> 0]

InitBg ==
    /\ bgFront \in {"exe", "app"}
    /\ uiPc = IF bgFront = "exe" THEN "init" ELSE "waiting"
    /\ progress = FALSE
    /\ workerPc = "none"
    /\ afterQ = 0
    /\ bgFiles = {}
    /\ bgReturned = 0
    /\ bgCallbacks = 0
    /\ bgEvents = 0
    /\ bgErrors = NoErrors

BgOff ==
    /\ bgFront = "none"
    /\ uiPc = "off"
    /\ progress = FALSE
    /\ workerPc = "none"
    /\ afterQ = 0
    /\ bgFiles = {}
    /\ bgReturned = 0
    /\ bgCallbacks = 0
    /\ bgEvents = 0
    /\ bgErrors = NoErrors

\* _run_background up to threading.Thread(...).start(): the progress window
\* is shown and the worker thread exists
_run_background ==
    /\ progress' = TRUE
    /\ workerPc' = "start"

\* CobblemonSpawnEditor._ensure_data, called by __init__ before the main loop
_ensure_data ==
    /\ bgFront = "exe"
    /\ uiPc = "init"
    /\ uiPc' = "mainloop"
    /\ IF ~dirExists
       THEN /\ _run_background
            /\ UNCHANGED <<bgFiles, files>>
       ELSE /\ bgFiles' = load_pokemon_files
            /\ files' = load_pokemon_files
            /\ UNCHANGED <<progress, workerPc>>
    /\ UNCHANGED <<bgFront, afterQ, bgReturned, bgCallbacks, bgEvents>>
    /\ UNCHANGED <<seedVars, current_file, deskEditorVars, notSeedBgDeskVars>>
    /\ UNCHANGED bgErrors

\* CobblemonSpawnEditor._restore_default, were self.current_file left as it
\* is
_restore_default_keeping_file ==
    /\ bgFront = "exe"
    /\ uiPc = "mainloop"
    /\ ~progress
    /\ runs < MaxRuns
    /\ _run_background
    /\ UNCHANGED <<bgFront, uiPc, afterQ, bgFiles, bgReturned, bgCallbacks,
                   bgEvents>>
    /\ UNCHANGED <<seedVars, notSeedBgVars>>
    /\ UNCHANGED bgErrors

\* CobblemonSpawnEditor._restore_default, confirmed: self.current_file =
\* None, then _run_background; the button is out of reach while the progress
\* window holds the grab.  The editor's widgets stay as they are
_restore_default ==
    /\ bgFront = "exe"
    /\ uiPc = "mainloop"
    /\ ~progress
    /\ runs < MaxRuns
    /\ current_file' = NoFile
    /\ _run_background
    /\ UNCHANGED <<bgFront, uiPc, afterQ, bgFiles, bgReturned, bgCallbacks,
                   bgEvents>>
    /\ UNCHANGED <<seedVars, files, deskEditorVars, notSeedBgDeskVars>>
    /\ UNCHANGED bgErrors

\* the user closes the "Please wait" window with the window manager's close
\* button: _run_background sets no WM_DELETE_WINDOW handler, so Tk destroys
\* the window, and the grab goes with it, while the worker goes on
close_progress ==
    /\ bgFront = "exe"
    /\ uiPc = "mainloop"
    /\ progress
    /\ progress' = FALSE
    /\ UNCHANGED <<bgFront, uiPc, workerPc, afterQ, bgFiles, bgReturned,
                   bgCallbacks, bgEvents>>
    /\ UNCHANGED <<seedVars, notSeedBgVars>>
    /\ UNCHANGED bgErrors

\* worker: func() is called
worker_func ==
    /\ workerPc = "start"
    /\ reset_call
    /\ workerPc' = "in_func"
    /\ UNCHANGED <<bgFront, uiPc, progress, afterQ, bgFiles, bgReturned,
                   bgCallbacks, bgEvents>>
    /\ UNCHANGED notSeedBgVars
    /\ UNCHANGED bgErrors

\* worker: func() has returned or raised; the finally clause schedules
\* _finish with self.root.after(0, ...), and an exception leaves the thread
\* uncaught: threading's excepthook writes the traceback to stderr, no
\* window or message shows it
worker_finally ==
    /\ workerPc = "in_func"
    /\ seed_over
    /\ workerPc' = "none"
    /\ afterQ' = afterQ + 1
    /\ bgReturned' = bgReturned + 1
    /\ UNCHANGED <<bgFront, uiPc, progress, bgFiles, bgCallbacks, bgEvents>>
    /\ UNCHANGED notSeedBgVars
    /\ bgErrors' = IF seedPc = "failed"
                   THEN [bgErrors EXCEPT !.raised = @ + 1]
                   ELSE bgErrors

\* _finish, run by the main loop: p.destroy() and callback(), which is
\* _load_files
_finish ==
    /\ uiPc = "mainloop"
    /\ afterQ > 0
    /\ afterQ' = afterQ - 1
    /\ progress' = FALSE
    /\ bgFiles' = load_pokemon_files
    /\ files' = load_pokemon_files
    /\ bgCallbacks' = bgCallbacks + 1
    /\ UNCHANGED <<bgFront, uiPc, workerPc, bgReturned, bgEvents>>
    /\ UNCHANGED <<seedVars, current_file, deskEditorVars, notSeedBgDeskVars>>
    /\ UNCHANGED bgErrors

\* the Tk main loop handles another event (the progress bar's timer, a
\* redraw) while the worker is in func()
mainloop_event ==
    /\ uiPc = "mainloop"
    /\ workerPc = "in_func"
    /\ bgEvents < MaxEvents
    /\ bgEvents' = bgEvents + 1
    /\ UNCHANGED <<bgFront, uiPc, progress, workerPc, afterQ, bgFiles,
                   bgReturned, bgCallbacks>>
    /\ UNCHANGED <<seedVars, notSeedBgVars>>
    /\ UNCHANGED bgErrors

\* main, lines 448-451: a run finds no spawn directory and calls reset()
main_reset ==
    /\ bgFront = "app"
    /\ uiPc \in {"waiting", "rerun"}
    /\ ~dirExists
    /\ reset_call
    /\ uiPc' = "in_reset"
    /\ UNCHANGED <<bgFront, progress, workerPc, afterQ, bgFiles, bgReturned,
                   bgCallbacks, bgEvents>>
    /\ UNCHANGED notSeedBgVars
    /\ UNCHANGED bgErrors

\* main, lines 454-457: a run finds the directory and lists the files; in
\* the run st.rerun() has asked for, this is the reload after the seed
main_load_pokemon_files ==
    /\ bgFront = "app"
    /\ uiPc \in {"waiting", "rerun"}
    /\ dirExists
    /\ bgFiles' = load_pokemon_files
    /\ bgCallbacks' = IF uiPc = "rerun" THEN bgCallbacks + 1 ELSE bgCallbacks
    /\ uiPc' = "waiting"
    /\ UNCHANGED <<bgFront, progress, workerPc, afterQ, bgReturned, bgEvents>>
    /\ UNCHANGED <<seedVars, notSeedBgVars>>
    /\ UNCHANGED bgErrors

\* main, lines 478-480: the run the "Restore to default" button has
\* triggered lists the files and, when there are some, calls reset()
main_restore ==
    /\ bgFront = "app"
    /\ uiPc = "waiting"
    /\ dirExists
    /\ load_pokemon_files # {}
    /\ reset_call
    /\ bgFiles' = load_pokemon_files
    /\ uiPc' = "in_reset"
    /\ UNCHANGED <<bgFront, progress, workerPc, afterQ, bgReturned,
                   bgCallbacks, bgEvents>>
    /\ UNCHANGED notSeedBgVars
    /\ UNCHANGED bgErrors

\* main, lines 452 and 481: reset() has returned, st.rerun()
main_reset_returns ==
    /\ uiPc = "in_reset"
    /\ seedPc = "done"
    /\ seed_over
    /\ uiPc' = "rerun"
    /\ bgReturned' = bgReturned + 1
    /\ UNCHANGED <<bgFront, progress, workerPc, afterQ, bgFiles, bgCallbacks,
                   bgEvents>>
    /\ UNCHANGED notSeedBgVars
    /\ UNCHANGED bgErrors

\* main: reset() has raised; the run ends with the exception, which
\* Streamlit shows on the page, and st.rerun() is not reached
main_reset_raises ==
    /\ uiPc = "in_reset"
    /\ seedPc = "failed"
    /\ seed_over
    /\ uiPc' = "waiting"
    /\ bgReturned' = bgReturned + 1
    /\ UNCHANGED <<bgFront, progress, workerPc, afterQ, bgFiles, bgCallbacks,
                   bgEvents>>
    /\ UNCHANGED notSeedBgVars
    /\ bgErrors' = [raised |-> bgErrors.raised + 1,
                    reported |-> bgErrors.reported + 1]

NextBg ==
    \/ _ensure_data
    \/ _restore_default
    \/ worker_func
    \/ worker_finally
    \/ _finish
    \/ mainloop_event
    \/ main_reset
    \/ main_load_pokemon_files
    \/ main_restore
    \/ main_reset_returns
    \/ main_reset_raises
    \/ download_spawn_pool
    \/ download_spawn_pool_fails
    \/ fetch_all_species
    \/ fetch_all_species_fails
    \/ create_blank_spawns
    \/ create_blank_spawns_fails

-----------------------------------------------------------------------------
(* The spawn entry codec on its own: a spawn entry is decoded into one     *)
(* front-end's editor (a SpawnEditor, or the widgets of render_spawn under *)
(* the key prefix of the first spawn) and edited; the entry the editor     *)
(* encodes is what get_data / render_spawn returns.                        *)

\* a spawn of type pokemon and a herd spawn, without optional parts
PlainSpawn ==
    [id |-> "pidgey-1", type |-> "pokemon", pokemon |-> "pidgey",
     bucket |-> "common", spawnablePositionType |-> "grounded",
     level |-> "1-10", weight |-> 20]

HerdMemberA == [pokemon |-> "pidgey", levelRange |-> "1-10", weight |-> 10,
                isLeader |-> TRUE]

HerdMemberB == [pokemon |-> "pidgey", levelRange |-> "5-15", weight |-> 20,
                isLeader |-> FALSE, maxTimes |-> 2]

HerdSpawn(members) ==
    [id |-> "pidgey-herd-1", type |-> "pokemon-herd",
     bucket |-> "common", spawnablePositionType |-> "grounded",
     levelRange |-> "5-15", weight |-> 20,
     maxHerdSize |-> 4, minDistanceBetweenSpawns |-> 25,
     herdablePokemon |-> members]

MultiplierA == [multiplier |-> 20, condition |-> [timeRange |-> "day"]]

MultiplierB == [multiplier |-> 5, condition |-> EmptyObj]

\* the optional parts a file may hold: the singular legacy multiplier (with
\* and without a condition, empty, beside a plural list), the plural list;
\* a condition that is empty, holds an explicit zero or false, or a value;
\* drops without entries, with an entry whose item is empty or blank
RawSpawnParts ==
    {EmptyObj,
     "weightMultiplier" :> MultiplierA,
     "weightMultiplier" :> [multiplier |-> 20],
     "weightMultiplier" :> EmptyObj,
     "weightMultipliers" :> <<MultiplierA, MultiplierB, MultiplierA>>,
     ("weightMultiplier" :> MultiplierA)
        @@ ("weightMultipliers" :> <<MultiplierB>>),
     "condition" :> EmptyObj,
     "condition" :> [minSkyLight |-> 0],
     "condition" :> [canSeeSky |-> FALSE, bait |-> ""],
     "anticondition" :> [biomes |-> <<"plains">>],
     "drops" :> [amount |-> 2, entries |-> <<>>],
     "drops" :> [amount |-> 1,
                 entries |-> <<[item |-> "", percentage |-> 25],
                               [item |-> "feather", quantityRange |-> "1-2"],
                               [item |-> " ", percentage |-> 5]>>]}

\* the spawn entries a file may hold: a spawn of type pokemon with one of the
\* optional parts, a herd without members, a herd of two, with and without
\* multipliers
RawSpawns ==
    {PlainSpawn @@ part : part \in RawSpawnParts}
    \cup {HerdSpawn(<<>>), HerdSpawn(<<HerdMemberA, HerdMemberB>>),
          HerdSpawn(<<HerdMemberA, HerdMemberB>>)
             @@ ("weightMultipliers" :> <<MultiplierA, MultiplierB>>)}

\* the key prefix of the first spawn's widgets
SpawnKey == "_s0"

NoSpawnEditor == SpawnEditor(EmptyObj, FromFile(0))

InitSpawn ==
    /\ spFront \in {"exe", "app"}
    /\ spSrc \in RawSpawns
    /\ spPhase = "source"
    /\ spEd = NoSpawnEditor
    /\ spSs = NoSession
    /\ spPlain = EmptyObj
    /\ spTrig = ""
    /\ spPending = FALSE
    /\ spOut = EmptyObj
    /\ spLog = <<>>

SpawnOff ==
    /\ spFront = "none"
    /\ spSrc = EmptyObj
    /\ spPhase = "off"
    /\ spEd = NoSpawnEditor
    /\ spSs = NoSession
    /\ spPlain = EmptyObj
    /\ spTrig = ""
    /\ spPending = FALSE
    /\ spOut = EmptyObj
    /\ spLog = <<>>

\* decode in the desktop editor: SpawnEditor(parent, spawn, ...)
SpawnBuildExe ==
    /\ spPhase = "source" /\ spFront = "exe"
    /\ spPhase' = "editing"
    /\ spEd' = SpawnEditor(spSrc, FromFile(1))
    /\ UNCHANGED <<spFront, spSrc, spSs, spPlain, spTrig, spPending, spOut,
                   spLog>>
    /\ UNCHANGED notSpVars

\* render_spawn, line 331: float(spawn.get("weight", 1.0)) raises ValueError
\* on a text that is no number.  The other numeric fields of the entries
\* drawn hold numbers
render_spawn_raises(spawn) == Get(spawn, "weight", 10) = NotNumber

\* a run of the script over an entry whose weight is no number: the
\* exception ends the run at the weight input, render_spawn returns nothing
\* and main does not get to the Save button; every later run ends there too
SpawnRunRaises ==
    /\ spFront = "app"
    /\ spPhase = "source"
    /\ render_spawn_raises(spSrc)
    /\ spPhase' = "raised"
    /\ UNCHANGED <<spFront, spSrc, spEd, spSs, spPlain, spTrig, spPending,
                   spOut, spLog>>
    /\ UNCHANGED notSpVars

\* one run of the script over the entry: render_spawn(spawn, 0, "_s0") on
\* the session state the last run has left; decode is the first run.  The
\* run leaves the values of the widgets it has instantiated and the counts,
\* and another run is due when it has ended in st.rerun()
SpawnRun ==
    /\ spFront = "app"
    /\ spPhase = "source" \/ spPending
    /\ ~render_spawn_raises(spSrc)
    /\ \E r \in {render_spawn(spSrc, SpawnKey, Ctx(spSs, spPlain, spTrig))} :
          /\ spSs' = SeenState(r.x)
          /\ spPlain' = r.x.plain
          /\ spPending' = r.x.stop
          /\ spOut' = r.result
    /\ spPhase' = "editing"
    /\ spTrig' = ""
    /\ UNCHANGED <<spFront, spSrc, spEd, spLog>>
    /\ UNCHANGED notSpVars

\* what every edit in the desktop editor does besides its own effect
SpawnEditExe(op, ed) ==
    /\ spPhase = "editing" /\ spFront = "exe"
    /\ Len(spLog) < MaxSpEdits
    /\ spEd' = ed
    /\ spLog' = Append(spLog, op)
    /\ UNCHANGED <<spFront, spSrc, spPhase, spSs, spPlain, spTrig, spPending,
                   spOut>>
    /\ UNCHANGED notSpVars

\* the identity of the next widget the user adds to the editor
SpawnNextAdded == Added(Len(spLog) + 1)

\* the herd frame is packed
HerdShown == spEd.type_var = "pokemon-herd"

\* a type change that would empty the level entry
SpawnOnTypeChange_clearing ==
    \E t \in {"pokemon", "pokemon-herd"} \ {spEd.type_var} :
        SpawnEditExe("type", [spEd EXCEPT !.type_var = t, !.level_var = ""])

\* the user picks another type in the combobox: SpawnEditor._on_type_change
\* packs one frame and forgets the other, no variable is touched
SpawnOnTypeChange ==
    \E t \in {"pokemon", "pokemon-herd"} \ {spEd.type_var} :
        SpawnEditExe("type", [spEd EXCEPT !.type_var = t])

\* the user types into the entry of the pokemon (shown for a spawn that is
\* not a herd) or of the level range
SpawnTypeText ==
    \/ /\ ~HerdShown
       /\ SpawnEditExe("pokemon", [spEd EXCEPT !.pokemon_var = "rattata"])
    \/ SpawnEditExe("level", [spEd EXCEPT !.level_var = "7-9"])

\* the texts a user types into a numeric entry: not a number, a number
TypedNumbers == {"abc", "2.5"}

\* the user types into one of the spawn's numeric entries
SpawnTypeNumber ==
    \/ \E t \in TypedNumbers :
          SpawnEditExe("weight", [spEd EXCEPT !.weight_var = t])
    \/ /\ HerdShown
       /\ SpawnEditExe("herd_size", [spEd EXCEPT !.herd_size_var = "abc"])
    \/ /\ HerdShown
       /\ SpawnEditExe("herd_dist", [spEd EXCEPT !.herd_dist_var = "abc"])

\* SpawnEditor._add_herd_member(None), by the button of the herd frame
SpawnAddHerdMember ==
    /\ HerdShown
    /\ SpawnEditExe("add_herd",
          [spEd EXCEPT !.herd_editors =
              Append(@, HerdPokemonEditor(DefaultHerdMember, SpawnNextAdded))])

\* SpawnEditor._delete_herd_member
SpawnDeleteHerdMember ==
    \E h \in 1..Len(spEd.herd_editors) :
        /\ HerdShown
        /\ SpawnEditExe("del_herd",
              [spEd EXCEPT !.herd_editors = ListRemove(@, spEd.herd_editors[h])])

\* the user types into a numeric entry of a herd member
SpawnTypeHerdNumber ==
    \E h \in 1..Len(spEd.herd_editors), t \in {"abc"} :
        /\ HerdShown
        /\ \/ SpawnEditExe("herd_weight",
                 [spEd EXCEPT !.herd_editors[h].weight_var = t])
           \/ SpawnEditExe("herd_max_times",
                 [spEd EXCEPT !.herd_editors[h].max_times_var = t])

\* SpawnEditor._add_weight_multiplier(None)
SpawnAddWeightMultiplier ==
    SpawnEditExe("add_wm",
        [spEd EXCEPT !.wm_editors =
            Append(@, WeightMultiplierEditor(DefaultWeightMultiplier,
                                             SpawnNextAdded))])

\* SpawnEditor._delete_wm
SpawnDeleteWm ==
    \E h \in 1..Len(spEd.wm_editors) :
        SpawnEditExe("del_wm",
            [spEd EXCEPT !.wm_editors = ListRemove(@, spEd.wm_editors[h])])

\* the user types into the entry of a multiplier
SpawnTypeMultiplier ==
    \E h \in 1..Len(spEd.wm_editors), t \in TypedNumbers :
        SpawnEditExe("multiplier", [spEd EXCEPT !.wm_editors[h].mult_var = t])

\* the user changes a widget of the spawn's condition editor
SpawnEditCondition ==
    \/ SpawnEditExe("cond",
          [spEd EXCEPT !.cond_editor.bool_vars["canSeeSky"] = ~@])
    \/ \E t \in {"", "0", "7"} :
          SpawnEditExe("cond",
             [spEd EXCEPT !.cond_editor.int_vars["minSkyLight"].var = t])
    \/ SpawnEditExe("cond", [spEd EXCEPT !.cond_editor.str_vars["bait"] = " "])

\* the "Enable drops" checkbutton: DropsEditor._toggle packs or forgets the
\* content frame
SpawnToggleDrops ==
    SpawnEditExe("has_drops", [spEd EXCEPT !.drops_editor.enabled_var = ~@])

\* DropsEditor._add_entry(None); the button is in the content frame
SpawnAddEntry ==
    /\ spEd.drops_editor.enabled_var
    /\ SpawnEditExe("add_entry",
          [spEd EXCEPT !.drops_editor.entry_widgets =
              Append(@, DropRow(DefaultDropEntry, SpawnNextAdded))])

\* DropsEditor._delete_entry
SpawnDeleteEntry ==
    \E h \in 1..Len(spEd.drops_editor.entry_widgets) :
        /\ spEd.drops_editor.enabled_var
        /\ SpawnEditExe("del_entry",
              [spEd EXCEPT !.drops_editor.entry_widgets =
                  ListRemove(@, spEd.drops_editor.entry_widgets[h])])

\* the user types into an entry of the drops editor
SpawnTypeDrops ==
    /\ spEd.drops_editor.enabled_var
    /\ \/ \E t \in {"abc"} :
             SpawnEditExe("amount", [spEd EXCEPT !.drops_editor.amount_var = t])
       \/ \E h \in 1..Len(spEd.drops_editor.entry_widgets) :
             \/ \E t \in {"", " ", "seed"} :
                   SpawnEditExe("item",
                      [spEd EXCEPT !.drops_editor.entry_widgets[h].item = t])
             \/ \E t \in {"abc"} :
                   SpawnEditExe("pct",
                      [spEd EXCEPT !.drops_editor.entry_widgets[h].pct = t])

\* what every interaction with the web form does besides its own effect: the
\* widget is one the last run has rendered, and the script runs again
SpawnEditApp(op, key) ==
    /\ spPhase = "editing" /\ spFront = "app"
    /\ ~spPending
    /\ key \in DOMAIN spSs
    /\ Len(spLog) < MaxSpEdits
    /\ spPending' = TRUE
    /\ spLog' = Append(spLog, op)
    /\ UNCHANGED <<spFront, spSrc, spPhase, spEd, spPlain, spOut>>
    /\ UNCHANGED notSpVars

\* the user gives a widget of the form another value
SpawnInput(op, key, v) ==
    /\ SpawnEditApp(op, key)
    /\ spSs[key] # v
    /\ spSs' = [spSs EXCEPT ![key] = v]
    /\ spTrig' = ""

\* the user picks another type in the "Type" selectbox
SpawnSelectType ==
    \E t \in {"pokemon", "pokemon-herd"} :
        SpawnInput("type", SpawnKey \o "_type", t)

\* the user types into the text input of the pokemon or of the level range
SpawnTextInput ==
    \/ SpawnInput("pokemon", SpawnKey \o "_pokemon", "rattata")
    \/ SpawnInput("level", SpawnKey \o "_level", "7-9")

\* the user sets a number input of the spawn, of a herd member or of a
\* multiplier
SpawnNumberInput ==
    \/ SpawnInput("weight", SpawnKey \o "_weight", 25)
    \/ SpawnInput("herd_size", SpawnKey \o "_herdsize", 3)
    \/ \E i \in 0..MaxIdx :
          \/ SpawnInput("herd_weight",
                        SpawnKey \o "_herd" \o ToString(i) \o "_w", 25)
          \/ SpawnInput("multiplier",
                        SpawnKey \o "_wms" \o ToString(i) \o "_mult", 25)

\* the user ticks the "Del" checkbox of an entry of one of the sub-lists
SpawnTickDel ==
    \E l \in WebLists, i \in 0..MaxIdx :
        SpawnInput("del" \o l.entry,
                   SpawnKey \o l.entry \o ToString(i) \o "_del", TRUE)

\* the user presses the button that adds an entry to one of the sub-lists
SpawnPressAdd ==
    \E l \in WebLists :
        /\ SpawnEditApp("add" \o l.entry, SpawnKey \o l.add)
        /\ spTrig' = SpawnKey \o l.add
        /\ UNCHANGED spSs

\* the user changes a widget of the spawn's condition
SpawnConditionInput ==
    \/ SpawnInput("cond", SpawnKey \o "_cond_canSeeSky",
                  ~Get(spSs, SpawnKey \o "_cond_canSeeSky", FALSE))
    \/ \E n \in {0, 7} :
          SpawnInput("cond", SpawnKey \o "_cond_minSkyLight", n)
    \/ SpawnInput("cond", SpawnKey \o "_cond_bait", " ")

\* the user changes a widget of the drops: the "Enable drops" checkbox, the
\* amount, an entry's item or percentage
SpawnDropsInput ==
    \/ SpawnInput("has_drops", SpawnKey \o "_drops_has_drops",
                  ~Get(spSs, SpawnKey \o "_drops_has_drops", FALSE))
    \/ SpawnInput("amount", SpawnKey \o "_drops_amount", 3)
    \/ \E i \in 0..MaxIdx :
          \/ \E t \in {"", " ", "seed"} :
                SpawnInput("item",
                    SpawnKey \o "_drops_entry" \o ToString(i) \o "_item", t)
          \/ SpawnInput("pct",
                 SpawnKey \o "_drops_entry" \o ToString(i) \o "_pct", 25)

\* a preset token that is not in PRESET_OPTIONS
UnknownPreset == "glowing_caves"

\* the checkboxes of the presets the user toggles
ToggledPresets == {"natural", "urban", UnknownPreset}

\* the options of the popup, were they the curated list alone
all_opts_curated_only(presets_list) == PRESET_OPTIONS

\* SpawnEditor._edit_presets: the options of the popup
all_opts(presets_list) ==
    PRESET_OPTIONS
    \o SelectSeq(presets_list, LAMBDA q : q \notin Elems(PRESET_OPTIONS))

\* ChecklistPopup._ok: the ticked options, in the order of the options
ChecklistPopup_ok(options, ticked) ==
    SelectSeq(options, LAMBDA o : o \in ticked)

\* _edit_presets: the user toggles one checkbox of the popup and presses OK,
\* which calls _set_presets with the ticked options
SpawnEditPresets ==
    \E t \in ToggledPresets :
        /\ t \in Elems(all_opts(spEd.presets_list))
        /\ SpawnEditExe("preset " \o t,
              [spEd EXCEPT !.presets_list =
                  ChecklistPopup_ok(all_opts(spEd.presets_list),
                                    (Elems(@) \ {t}) \cup ({t} \ Elems(@)))])

\* render_spawn, line 305: the options of the "Presets" multiselect
preset_opts(presets) ==
    PRESET_OPTIONS
    \o SelectSeq(presets, LAMBDA q : q \notin Elems(PRESET_OPTIONS))

\* the user removes a token from the "Presets" multiselect or picks one of
\* its options, which is appended to the selection
SpawnPresetsInput ==
    \E t \in ToggledPresets :
        /\ t \in Elems(preset_opts(Get(spSrc, "presets", <<>>)))
        /\ SpawnInput("preset " \o t, SpawnKey \o "_presets",
              IF t \in Elems(spSs[SpawnKey \o "_presets"])
              THEN SelectSeq(spSs[SpawnKey \o "_presets"], LAMBDA q : q # t)
              ELSE Append(spSs[SpawnKey \o "_presets"], t))

\* the user types 0 into the herd size or into the drops amount of the
\* desktop editor
SpawnTypeZero ==
    \/ /\ HerdShown
       /\ SpawnEditExe("herd_size", [spEd EXCEPT !.herd_size_var = "0"])
    \/ /\ spEd.drops_editor.enabled_var
       /\ SpawnEditExe("amount", [spEd EXCEPT !.drops_editor.amount_var = "0"])

\* the spawn entries of the claims on presets and on numbers: presets with
\* and without a token outside the curated list, a weight that is no
\* number, drops, a herd
OddSpawns ==
    {PlainSpawn,
     PlainSpawn @@ ("presets" :> <<"natural">>),
     PlainSpawn @@ ("presets" :> <<UnknownPreset>>),
     PlainSpawn @@ ("presets" :> <<"wild", UnknownPreset, "natural">>),
     ("weight" :> NotNumber) @@ PlainSpawn,
     PlainSpawn @@ ("drops" :> [amount |-> 2, entries |-> <<>>]),
     HerdSpawn(<<>>) @@ ("presets" :> <<"natural">>)}

InitEntry ==
    /\ spFront \in {"exe", "app"}
    /\ spSrc \in OddSpawns
    /\ spPhase = "source"
    /\ spEd = NoSpawnEditor
    /\ spSs = NoSession
    /\ spPlain = EmptyObj
    /\ spTrig = ""
    /\ spPending = FALSE
    /\ spOut = EmptyObj
    /\ spLog = <<>>

NextEntry ==
    \/ SpawnBuildExe
    \/ SpawnRun
    \/ SpawnRunRaises
    \/ SpawnEditPresets
    \/ SpawnPresetsInput
    \/ SpawnTypeZero
    \/ SpawnOnTypeChange
    \/ SpawnSelectType
    \/ SpawnToggleDrops
    \/ SpawnNumberInput
    \/ SpawnDropsInput

NextSpawn ==
    \/ SpawnBuildExe
    \/ SpawnRun
    \/ SpawnOnTypeChange
    \/ SpawnTypeText
    \/ SpawnTypeNumber
    \/ SpawnAddHerdMember
    \/ SpawnDeleteHerdMember
    \/ SpawnTypeHerdNumber
    \/ SpawnAddWeightMultiplier
    \/ SpawnDeleteWm
    \/ SpawnTypeMultiplier
    \/ SpawnEditCondition
    \/ SpawnToggleDrops
    \/ SpawnAddEntry
    \/ SpawnDeleteEntry
    \/ SpawnTypeDrops
    \/ SpawnSelectType
    \/ SpawnTextInput
    \/ SpawnNumberInput
    \/ SpawnTickDel
    \/ SpawnPressAdd
    \/ SpawnConditionInput
    \/ SpawnDropsInput

-----------------------------------------------------------------------------
(* Specifications *)

\* the seed provider alone
SeedInit == InitSeed /\ CondOff /\ DeskOff /\ WebOff /\ BgOff /\ SpawnOff

SpecSeed == SeedInit /\ [][NextSeed]_vars

\* the condition codec alone
CondInit == InitCond /\ SeedOff /\ DeskOff /\ WebOff /\ BgOff /\ SpawnOff

SpecCond == CondInit /\ [][NextCond]_vars

\* a session of the desktop editor
DeskInit == InitDesk /\ SeedIdle /\ CondOff /\ WebOff /\ BgOff /\ SpawnOff

SpecDesk == DeskInit /\ [][NextDesk]_vars

\* a session of the web editor
WebInit == InitWeb /\ SeedIdle /\ CondOff /\ DeskOff /\ BgOff /\ SpawnOff

SpecWeb == WebInit /\ [][NextWeb]_vars

\* a step of main, told by what every run changes: while a run is due no
\* action but main is enabled, and main either ends the wait for a run or
\* counts one more rerun
ScriptRun ==
    /\ webPending
    /\ webReruns < MaxReruns
    /\ webPending' \in BOOLEAN
    /\ webReruns' \in 0..MaxReruns

\* ... in which a script run that is due is made: Streamlit runs the script
\* after every interaction and after every st.rerun()
SpecWebLive ==
    WebInit /\ [][NextWeb]_vars /\ WF_<<webPending, webReruns>>(ScriptRun)

\* a front-end calling the seed
BgInit == InitSeed /\ CondOff /\ DeskOff /\ WebOff /\ InitBg /\ SpawnOff

SpecBg == BgInit /\ [][NextBg]_vars

\* the desktop session with the seed in the background: the window is up with
\* the two documents of the directory listed, the remote repository holds
\* one file and the species list names the species of the first dex numbers
RestoreInit ==
    /\ disk = WebDisk
    /\ dirExists = TRUE
    /\ files = load_pokemon_files
    /\ current_file = NoFile
    /\ top_fields = NoTopFields
    /\ spawn_editors = <<>>
    /\ deskLoaded = NotLoaded
    /\ deskAdded = {}
    /\ deskDeleted = {}
    /\ deskDirty = FALSE
    /\ deskOps = 0
    /\ deskSaves = 0
    /\ deskFailed = {}
    /\ upstream = {[dex |-> 1, name |-> Names[1]]}
    /\ species = {f \in FileName : f.name = Names[1] /\ f.dex <= 2}
    /\ seedPc = "idle"
    /\ seedOp = "none"
    /\ existing_files = {}
    /\ fetched = {}
    /\ before = disk
    /\ beforeExists = dirExists
    /\ cleanSeed = FALSE
    /\ runs = 0
    /\ bgFront = "exe"
    /\ uiPc = "mainloop"
    /\ progress = FALSE
    /\ workerPc = "none"
    /\ afterQ = 0
    /\ bgFiles = load_pokemon_files
    /\ bgReturned = 0
    /\ bgCallbacks = 0
    /\ bgEvents = 0
    /\ bgErrors = NoErrors
    /\ CondOff /\ WebOff /\ SpawnOff

\* the main window takes the user's clicks and keys: the main loop runs and
\* no progress window holds the grab
UiFree ==
    /\ bgFront = "exe"
    /\ uiPc = "mainloop"
    /\ ~progress

\* one Restore is followed, and with it one worker thread: the session's
\* first Restore, whatever the user has done before it and does after it.
\* save_spawn_data raises in a directory that rmtree has removed, so _save
\* writes only where the directory exists
NextRestore ==
    \/ (UiFree /\ _on_select)
    \/ (UiFree /\ _add_spawn)
    \/ (UiFree /\ dirExists /\ _save)
    \/ (runs = 0 /\ workerPc = "none" /\ _restore_default)
    \/ close_progress
    \/ worker_func
    \/ worker_finally
    \/ _finish
    \/ download_spawn_pool
    \/ download_spawn_pool_fails
    \/ fetch_all_species
    \/ fetch_all_species_fails
    \/ create_blank_spawns
    \/ create_blank_spawns_fails

SpecRestore == RestoreInit /\ [][NextRestore]_vars

\* the spawn entry codec alone, in a directory that holds the two documents
SpawnInit ==
    /\ InitSpawn /\ disk = WebDisk /\ dirExists = TRUE /\ SeedIdle
    /\ CondOff /\ DeskOff /\ WebOff /\ BgOff

SpecSpawn == SpawnInit /\ [][NextSpawn]_vars

\* the spawn entry codec on the entries with presets and odd numbers
EntryInit ==
    /\ InitEntry /\ disk = WebDisk /\ dirExists = TRUE /\ SeedIdle
    /\ CondOff /\ DeskOff /\ WebOff /\ BgOff

SpecEntry == EntryInit /\ [][NextEntry]_vars

-----------------------------------------------------------------------------
(* The condition codec's claims, checked under SpecCond *)

\* what decoding leaves in the web form: the widgets' values and, per integer
\* field, whether the source had a value ("current is not None")
AppCondState(cond, ss) ==
    [widgets |-> ss, had |-> {f \in CONDITION_INT_FIELDS : Has(cond, f)}]

AppDecode(cond) ==
    AppCondState(cond, render_condition_widgets(cond, CondKey, NoSession))

\* no string and no list entry of the object is padded or blank
CleanCond(cond) ==
    /\ \A f \in CONDITION_LIST_FIELDS \cap DOMAIN cond :
          StripNonEmpty(cond[f]) = cond[f]
    /\ \A f \in CONDITION_STRING_FIELDS \cap DOMAIN cond :
          Strip(cond[f]) = cond[f]

-----------------------------------------------------------------------------
(* The desktop session's claims, checked under SpecDesk *)

TopKeys == {"enabled", "neededInstalledMods", "neededUninstalledMods", "spawns"}

SpawnKeys ==
    {"id", "type", "pokemon", "presets", "spawnablePositionType", "bucket",
     "level", "levelRange", "weight", "maxHerdSize",
     "minDistanceBetweenSpawns", "herdablePokemon", "weightMultipliers",
     "condition", "anticondition", "drops"}

HerdOnlyKeys ==
    {"levelRange", "maxHerdSize", "minDistanceBetweenSpawns", "herdablePokemon"}

WellFormedCond(c) ==
    /\ DOMAIN c \subseteq CondFields
    /\ Has(c, "timeRange") => c["timeRange"] \in Elems(TIME_RANGES) \ {""}
    /\ Has(c, "moonPhase") => c["moonPhase"] \in Elems(MOON_PHASES) \ {""}
    /\ CleanCond(c)

WellFormedSpawn(sp) ==
    /\ DOMAIN sp \subseteq SpawnKeys
    /\ {"id", "type", "spawnablePositionType", "bucket", "weight"}
          \subseteq DOMAIN sp
    /\ sp["type"] \in Elems(SPAWN_TYPES)
    /\ sp["bucket"] \in Elems(BUCKETS)
    /\ sp["spawnablePositionType"] \in Elems(POSITION_TYPES)
    /\ IF sp["type"] = "pokemon-herd"
       THEN DOMAIN sp \cap {"pokemon", "level"} = {}
       ELSE /\ DOMAIN sp \cap HerdOnlyKeys = {}
            /\ {"pokemon", "level"} \subseteq DOMAIN sp
    /\ Has(sp, "presets") => Elems(sp["presets"]) \subseteq Elems(PRESET_OPTIONS)
    /\ Has(sp, "condition") => WellFormedCond(sp["condition"])
    /\ Has(sp, "anticondition") => WellFormedCond(sp["anticondition"])

\* only schema keys, variant-appropriate fields, vocabulary enum values
WellFormed(doc) ==
    /\ DOMAIN doc \subseteq TopKeys
    /\ Has(doc, "spawns")
    /\ \A i \in 1..Len(doc["spawns"]) : WellFormedSpawn(doc["spawns"][i])

\* C1: load-then-save without edits is the identity on well-formed files: a
\* save made with no user edit since the load of a well-formed document
\* leaves on disk a document equal in value to the one loaded.
C1_LoadSaveIdentity ==
    [][(/\ deskSaves' = deskSaves + 1
        /\ disk'[current_file].kind = "doc"
        /\ deskLoaded.valid
        /\ ~deskDirty
        /\ WellFormed(deskLoaded.doc))
       => disk'[current_file].doc = deskLoaded.doc]_vars

\* C5: a file whose load failed with a parse error is left untouched: no
\* later action of the session writes to it.
C5_ParseErrorLeavesFileUntouched ==
    \A r \in deskFailed : disk[r.file] = r.content

\* C6: save overwrites atomically: whenever a file's content changes, the
\* file holds a complete document afterwards; a failed save leaves the
\* previous content.
C6_SaveIsAtomic ==
    [][\A f \in FileName : disk'[f] # disk[f] => disk'[f].kind = "doc"]_vars

\* a finite set of numbers as the ascending sequence
RECURSIVE Ascending(_)
Ascending(S) ==
    IF S = {} THEN <<>>
    ELSE LET m == CHOOSE x \in S : \A y \in S : x <= y
         IN  <<m>> \o Ascending(S \ {m})

\* the indexes of the loaded items of a list that have not been deleted
SurvivingFile(list, owner, n) ==
    Ascending({i \in 1..n : ListEntry(list, owner, FromFile(i)) \notin deskDeleted})

\* the numbers of the added items of a list that have not been deleted
SurvivingAdded(list, owner) ==
    Ascending({e.id.n : e \in {x \in deskAdded \ deskDeleted :
                                  x.list = list /\ x.owner = owner /\ x.id.new}})

\* the loaded items that survive, each taken through FromItem, followed by
\* one `added` per surviving added item
ExpectedList(list, owner, items, FromItem(_, _), added) ==
    LET kept == SurvivingFile(list, owner, Len(items))
        new == SurvivingAdded(list, owner)
    IN  [q \in 1..Len(kept) |-> FromItem(items[kept[q]], FromFile(kept[q]))]
        \o [q \in 1..Len(new) |-> added]

\* the surviving spawns: the loaded entry or the new-spawn template of each
ExpectedSpawns ==
    ExpectedList("spawns", NoOwner, Get(deskLoaded.doc, "spawns", <<>>),
                 LAMBDA sp, w : [src |-> sp, widget |-> w],
                 [src |-> new_spawn(current_file, 0), widget |-> Added(0)])

\* the widget identities of the spawn editors, in list order
SpawnWidgets == [p \in 1..Len(spawn_editors) |-> spawn_editors[p].widget]

SubListKeys == {"herdablePokemon", "weightMultipliers", "drops"}

\* what a freshly added herd member and multiplier encode as
AddedHerdEncoded ==
    [pokemon |-> "", levelRange |-> "1-10", weight |-> 10, isLeader |-> FALSE]

AddedWmEncoded == [multiplier |-> 10, condition |-> EmptyObj]

\* the encoded spawn at position p is the encoding of its source with the
\* surviving sub-records in order
SpawnEncodesSurvivors(enc, ed, src) ==
    LET base == SpawnEditor_get_data(SpawnEditor(src, ed.widget))
        skip == SubListKeys \cup (IF ed.widget.new THEN {"id"} ELSE {})
        drops == Get(src, "drops", EmptyObj)
    IN  /\ Without(enc, skip) = Without(base, skip)
        /\ Get(enc, "herdablePokemon", <<>>) =
              ExpectedList("herd", ed.widget,
                  IF Get(src, "type", "pokemon") = "pokemon-herd"
                  THEN Get(src, "herdablePokemon", <<>>) ELSE <<>>,
                  LAMBDA hp, w : HerdPokemonEditor_get_data(HerdPokemonEditor(hp, w)),
                  AddedHerdEncoded)
        /\ Get(enc, "weightMultipliers", <<>>) =
              ExpectedList("wm", ed.widget, WeightMultipliersOf(src),
                  LAMBDA wm, w : WeightMultiplierEditor_get_data(
                                     WeightMultiplierEditor(wm, w)),
                  AddedWmEncoded)
        /\ Has(enc, "drops") = Has(src, "drops")
        /\ Has(enc, "drops") =>
              /\ enc["drops"]["amount"] = Get(drops, "amount", 1)
              /\ enc["drops"]["entries"] =
                    DropEntries(
                        LET items == Get(drops, "entries", <<>>)
                            kept == SurvivingFile("drops", ed.widget, Len(items))
                        IN  [q \in 1..Len(kept) |->
                                DropRow(items[kept[q]], FromFile(kept[q]))])

\* the encoded spawn is literally its source with the surviving source
\* sub-records followed by the default templates
SpawnIsSourceMinusDeleted(enc, ed, src) ==
    LET skip == SubListKeys \cup (IF ed.widget.new THEN {"id"} ELSE {})
        drops == Get(src, "drops", EmptyObj)
    IN  /\ Without(enc, skip) = Without(src, skip)
        /\ Get(enc, "herdablePokemon", <<>>) =
              ExpectedList("herd", ed.widget, Get(src, "herdablePokemon", <<>>),
                           LAMBDA hp, w : hp, DefaultHerdMember)
        /\ Get(enc, "weightMultipliers", <<>>) =
              ExpectedList("wm", ed.widget, WeightMultipliersOf(src),
                           LAMBDA wm, w : wm, DefaultWeightMultiplier)
        /\ Has(enc, "drops") = Has(src, "drops")
        /\ Has(enc, "drops") =>
              enc["drops"]["entries"] =
                 ExpectedList("drops", ed.widget, Get(drops, "entries", <<>>),
                              LAMBDA e, w : e, DefaultDropEntry)

\* C4 as stated: after any sequence of add and delete actions every encoded
\* list (spawns, herd members, weight multipliers, drop entries) equals the
\* loaded list with the deleted items removed and one default item appended
\* per added sub-editor, in the order added.
C4_EncodedListsAreInitialMinusDeletedPlusDefaults ==
    deskLoaded.valid =>
        LET data == _collect_data(top_fields, spawn_editors)
            exp == ExpectedSpawns
        IN  /\ Len(data.spawns) = Len(exp)
            /\ \A p \in 1..Len(exp) :
                  SpawnIsSourceMinusDeleted(data.spawns[p], spawn_editors[p],
                                            exp[p].src)

\* C4 as amended: the editors of every list are the loaded ones that were
\* not deleted, in their loaded order, followed by the added ones that were
\* not deleted, in the order added; every surviving loaded item is encoded
\* as a load-then-save without list actions encodes it, an added herd member
\* as {pokemon "", levelRange "1-10", weight 1.0, isLeader false}, an added
\* multiplier as {multiplier 1.0, condition {}}, an added spawn as the
\* new-spawn template without its empty condition, and a drop row whose item
\* is empty (every freshly added row) contributes no entry.
C4_EditorsEncodeSurvivorsInOrder ==
    deskLoaded.valid =>
        LET data == _collect_data(top_fields, spawn_editors)
            exp == ExpectedSpawns
        IN  /\ Len(data.spawns) = Len(exp)
            /\ Len(spawn_editors) = Len(exp)
            /\ \A p \in 1..Len(exp) :
                  /\ spawn_editors[p].widget.new = exp[p].widget.new
                  /\ ~exp[p].widget.new =>
                        spawn_editors[p].widget = exp[p].widget
                  /\ SpawnEncodesSurvivors(data.spawns[p], spawn_editors[p],
                                           exp[p].src)
            /\ \A p, q \in 1..Len(spawn_editors) :
                  (p < q /\ spawn_editors[p].widget.new) =>
                      /\ spawn_editors[q].widget.new
                      /\ spawn_editors[p].widget.n < spawn_editors[q].widget.n

\* C4 witness: in the herd spawn the first loaded member has been deleted,
\* a member has been added, and the encoded list is the second loaded member
\* followed by the added one.
C4_Witness ==
    /\ deskLoaded.valid
    /\ Len(spawn_editors) >= 1
    /\ spawn_editors[1].type_var = "pokemon-herd"
    /\ ListEntry("herd", FromFile(1), FromFile(1)) \in deskDeleted
    /\ \E e \in deskAdded \ deskDeleted : e.list = "herd"
    /\ LET herd == _collect_data(top_fields, spawn_editors).spawns[1]["herdablePokemon"]
       IN  /\ Len(herd) = 2
           /\ herd[1]["levelRange"] = "5-15"
           /\ herd[2] = AddedHerdEncoded

-----------------------------------------------------------------------------
(* The seed provider's claims, checked under SpecSeed *)

\* the directory a complete get_default produces from directory b
SeededFrom(b) ==
    [f \in FileName |->
        IF f \in upstream THEN File(UpstreamDoc(f))
        ELSE IF f \in Missing(upstream, species) /\ b[f] = Absent
        THEN File(BLANK_SPAWN)
        ELSE b[f]]

\* C7: when reset() or get_default() has failed, the spawn directory is either
\* exactly what it was before the call or the complete seeded file set.
C7_FailedSeedLeavesPriorOrSeeded ==
    seedPc = "failed" =>
        \/ disk = before
        \/ disk = SeededFrom(IF seedOp = "reset" THEN rmtree ELSE before)

\* C8 as stated: a completed get_default leaves the content of every file
\* that already existed unchanged.
C8_ExistingFilesUntouched ==
    (seedPc = "done" /\ seedOp = "get_default") =>
        \A f \in FileName : before[f] # Absent => disk[f] = before[f]

\* C8 as amended: a completed get_default rewrites every upstream spawn file
\* with the upstream content, leaves every other file that existed unchanged,
\* creates a blank file exactly for the species that have no upstream file of
\* their dex number and no file of their name yet, and changes nothing when
\* it runs on a directory that a completed seed has left.
C8_GetDefaultFillsAndIsIdempotent ==
    (seedPc = "done" /\ seedOp = "get_default") =>
        /\ \A f \in upstream : disk[f] = File(UpstreamDoc(f))
        /\ \A f \in FileName \ upstream :
              before[f] # Absent => disk[f] = before[f]
        /\ \A f \in FileName \ upstream :
              before[f] = Absent =>
                 disk[f] = IF f \in Missing(upstream, species)
                           THEN File(BLANK_SPAWN) ELSE Absent
        /\ cleanSeed => disk = before

\* C8 witness: a get_default has completed on a directory that held a local
\* file which is not an upstream file, next to a species that lacked a file,
\* and a second get_default has completed on a seeded directory.
C8_Witness ==
    /\ seedPc = "done" /\ seedOp = "get_default"
    /\ cleanSeed
    /\ \E f \in FileName \ upstream : disk[f] = File(LocalDoc)
    /\ \E f \in FileName : disk[f] = File(BLANK_SPAWN)
    /\ upstream # {}

-----------------------------------------------------------------------------
(* Sub-lists in the web editor (SpecWeb) *)

\* a sub-list of spawn s of a document
WebSubList(doc, s, l) ==
    IF l = "_herd" THEN Get(doc["spawns"][s + 1], "herdablePokemon", <<>>)
    ELSE IF l = "_wms" THEN Get(doc["spawns"][s + 1], "weightMultipliers", <<>>)
    ELSE Get(Get(doc["spawns"][s + 1], "drops", EmptyObj), "entries", <<>>)

\* the list without its entry at position j
RemoveAt(list, j) == SubSeq(list, 1, j - 1) \o SubSeq(list, j + 1, Len(list))

\* what Save writes for the selected file when the user has touched nothing
Untouched == main_run(webSelected, EmptyObj, EmptyObj, "").data

\* what the user has done to the editors since the start or the last write
IsWebEdit(o) == o.op # "select"

WebEdits == SelectSeq(webLog, IsWebEdit)

\* C3: in the web editor, when the only thing the user has done to the
\* editors, on the selected file, is to tick Del on entry i of a sub-list, Save writes that
\* list with entry i removed and the other entries as they were, in order;
\* when it is to press Add, Save writes the list with exactly one entry
\* appended and the existing entries unchanged.
C3_DelRemovesOneAddAppendsOne ==
    [][(/\ webPending
        /\ webTrig = "_save"
        /\ webSaves' = webSaves + 1
        /\ Len(WebEdits) = 1
        /\ webLog[Len(webLog)] = WebEdits[1]
        /\ WebEdits[1].op \in {"del", "add"})
       => LET op == WebEdits[1]
              was == WebSubList(Untouched, op.spawn, op.list)
              now == WebSubList(disk'[webSelected].doc, op.spawn, op.list)
          IN  IF op.op = "del"
              THEN now = RemoveAt(was, op.index + 1)
              ELSE /\ Len(now) = Len(was) + 1
                   /\ SubSeq(now, 1, Len(was)) = was]_vars

-----------------------------------------------------------------------------
(* The seed and the UI (SpecBg) *)

\* a seed call has been entered and has not yet returned to its caller
SeedRunning == seedPc \in {"download", "fetch", "blank", "done", "failed"}

\* nothing is running or queued on either side
BgQuiet ==
    /\ ~SeedRunning
    /\ workerPc = "none"
    /\ afterQ = 0
    /\ uiPc \in {"mainloop", "waiting"}

\* C10: while a seed call runs the UI thread is not inside it, so the UI
\* goes on handling events; the reload of the file list that completes a
\* seed call is made only after that call has returned or raised, and once
\* for each call: no reload is ahead of the calls that are over, and when
\* nothing is running or queued every call that is over has had its reload.
C10_SeedOffTheUiThreadReloadOnceAfter ==
    /\ SeedRunning => uiPc # "in_reset"
    /\ bgCallbacks <= bgReturned
    /\ BgQuiet => bgCallbacks = bgReturned

-----------------------------------------------------------------------------
(* Errors of the seed (SpecBg) *)

\* C11: a seed call that raises is reported to the user: once the front-end
\* has finished with the seed calls made so far (nothing running or queued),
\* every call that raised has been reported, none passes for a success.
C11_SeedFailureIsReported == BgQuiet => bgErrors.reported = bgErrors.raised

-----------------------------------------------------------------------------
(* The integer condition fields, checked under SpecCond *)

\* the object the editor at hand encodes
CondEncoded ==
    IF condFront = "exe"
    THEN ConditionEditor_get_data(condEd)
    ELSE render_condition(condSrc, CondKey, condSs)

\* the text of an integer field reads as an integer; the web form's
\* number_input always holds one
CondIntWellFormed(f) ==
    condFront = "exe" =>
        /\ Strip(condEd.int_vars[f].var) # ""
        /\ IsInt(condEd.int_vars[f].var)

\* the integer the field's widget holds, for a well-formed text
CondIntValue(f) ==
    IF condFront = "exe"
    THEN int(condEd.int_vars[f].var)
    ELSE CondWidget(condSrc, CondKey, condSs, f)

\* C16 as stated: for each integer condition field, the encoded condition
\* contains the field if and only if the source had an explicit value for it
\* or the edited value is non-zero.
C16_IntFieldIffSourceOrNonZero ==
    condPhase = "editing" =>
        \A f \in CONDITION_INT_FIELDS :
            Has(CondEncoded, f) <=>
                \/ Has(condSrc, f)
                \/ CondIntWellFormed(f) /\ CondIntValue(f) # 0

\* C16 as amended: for each integer condition field whose widget holds an
\* integer, the encoded condition contains the field, with that integer, if
\* and only if the source had an explicit value for it or the integer is
\* non-zero; a field whose text is blank or is not an integer is omitted,
\* whatever the source had.
C16_IntFieldRule ==
    condPhase = "editing" =>
        \A f \in CONDITION_INT_FIELDS :
            /\ Has(CondEncoded, f) <=>
                  /\ CondIntWellFormed(f)
                  /\ (Has(condSrc, f) \/ CondIntValue(f) # 0)
            /\ Has(CondEncoded, f) => CondEncoded[f] = CondIntValue(f)

\* C16 witness: a field absent in the source has been edited to the text
\* "0" in the desktop editor and is omitted
C16_Witness ==
    /\ condPhase = "editing" /\ condFront = "exe" /\ condEdits = 1
    /\ ~Has(condSrc, "minSkyLight")
    /\ condEd.int_vars["minSkyLight"].var = "0"
    /\ ~Has(CondEncoded, "minSkyLight")

-----------------------------------------------------------------------------
(* The spawn entry codec's claims, checked under SpecSpawn *)

\* the editor shows the entry and no script run is due
SpawnSettled == spPhase = "editing" /\ ~spPending

\* the entry the editor at hand encodes: SpawnEditor.get_data, or what
\* render_spawn has returned in the last run
SpawnEncoded == IF spFront = "exe" THEN SpawnEditor_get_data(spEd) ELSE spOut

\* the multipliers the editor holds: the multiplier editors, the rows the
\* script renders
SpawnWmCount ==
    IF spFront = "exe"
    THEN Len(spEd.wm_editors)
    ELSE spPlain[SpawnKey \o "_wm_count"]

\* the source has the singular weightMultiplier and no weightMultipliers
LegacySource == Has(spSrc, "weightMultiplier") /\ ~Has(spSrc, "weightMultipliers")

\* the encoded entry never has the singular key, and has the plural key
\* exactly when the editor holds a multiplier
PluralKeyOnly ==
    /\ ~Has(SpawnEncoded, "weightMultiplier")
    /\ Has(SpawnEncoded, "weightMultipliers") <=> SpawnWmCount > 0
    /\ Has(SpawnEncoded, "weightMultipliers") =>
          Len(SpawnEncoded["weightMultipliers"]) = SpawnWmCount

\* C12 as stated: a spawn entry with the singular weightMultiplier object and
\* no weightMultipliers list decodes as a one-element list, and after any
\* sequence of edits the encoded entry never has the key weightMultiplier and
\* has weightMultipliers exactly when the multiplier list is non-empty.
C12_LegacyMultiplierIsOneElementList ==
    SpawnSettled =>
        /\ (LegacySource /\ spLog = <<>>) => SpawnWmCount = 1
        /\ PluralKeyOnly

\* C12 as amended: a singular weightMultiplier object that is not empty, in
\* an entry with no (or an empty) weightMultipliers list, decodes as a
\* one-element list and is encoded under the plural key with its multiplier
\* and its condition; an empty singular object decodes as no multiplier; a
\* singular object beside a non-empty list is dropped; and after any edits
\* the encoded entry never has the key weightMultiplier and has
\* weightMultipliers exactly when the editor holds a multiplier.
C12_LegacyMultiplierNormalized ==
    SpawnSettled =>
        /\ (LegacySource /\ spLog = <<>>) =>
              IF spSrc["weightMultiplier"] # EmptyObj
              THEN /\ SpawnWmCount = 1
                   /\ SpawnEncoded["weightMultipliers"] =
                         <<[multiplier |->
                               Get(spSrc["weightMultiplier"], "multiplier", 10),
                            condition |->
                               Get(spSrc["weightMultiplier"], "condition",
                                   EmptyObj)]>>
              ELSE SpawnWmCount = 0
        /\ (Has(spSrc, "weightMultiplier") /\ Has(spSrc, "weightMultipliers")
            /\ spLog = <<>>) =>
              SpawnEncoded["weightMultipliers"] = spSrc["weightMultipliers"]
        /\ PluralKeyOnly

\* C12 witness: the desktop editor was built from an entry with the singular
\* object alone, the user has added a multiplier, and the encoded entry
\* holds the two under the plural key
C12_Witness ==
    /\ SpawnSettled /\ spFront = "exe"
    /\ LegacySource /\ spSrc["weightMultiplier"] = MultiplierA
    /\ spLog = <<"add_wm">>
    /\ ~Has(SpawnEncoded, "weightMultiplier")
    /\ SpawnEncoded["weightMultipliers"] = <<MultiplierA, DefaultWeightMultiplier>>

\* the user has done nothing but change the type, at least once
OnlyTypeChanges ==
    /\ spLog # <<>>
    /\ \A i \in 1..Len(spLog) : spLog[i] = "type"

\* the text of the level entry as the editor was built
SourceLevelText ==
    IF Get(spSrc, "type", "pokemon") = "pokemon-herd"
    THEN Get(spSrc, "levelRange", Get(spSrc, "level", ""))
    ELSE Get(spSrc, "level", "")

\* the entry the editor encodes when the user has changed nothing
SpawnUnedited ==
    IF spFront = "exe"
    THEN SpawnEditor_get_data(SpawnEditor(spSrc, FromFile(1)))
    ELSE render_spawn(spSrc, SpawnKey, Ctx(NoSession, EmptyObj, "")).result

\* the encoded entry holds the keys of its type's variant and no key of the
\* other variant
VariantKeysOnly ==
    LET is_herd == SpawnEncoded["type"] = "pokemon-herd"
    IN  /\ Has(SpawnEncoded, "pokemon") <=> ~is_herd
        /\ Has(SpawnEncoded, "level") <=> ~is_herd
        /\ \A k \in HerdOnlyKeys : Has(SpawnEncoded, k) <=> is_herd

\* C13 as stated: after any sequence of type changes the encoded entry holds
\* pokemon and level only when the type is not pokemon-herd, the herd keys
\* only when it is, and no value of the abandoned variant is carried over:
\* the level of the pokemon variant does not turn up as the herd's levelRange,
\* nor the herd's levelRange as the level.
C13_TypeSwitchDropsOtherVariant ==
    SpawnSettled =>
        /\ VariantKeysOnly
        /\ (OnlyTypeChanges /\ SpawnEncoded["type"] # spSrc["type"]
            /\ SourceLevelText # "") =>
              IF SpawnEncoded["type"] = "pokemon-herd"
              THEN SpawnEncoded["levelRange"] # SourceLevelText
              ELSE SpawnEncoded["level"] # SourceLevelText

\* C13 as amended: after any sequence of edits the encoded entry holds
\* pokemon and level only when the type is not pokemon-herd, and levelRange,
\* maxHerdSize, minDistanceBetweenSpawns and herdablePokemon only when it
\* is; a change of type alone carries the level text over from level to
\* levelRange and back, gives a variant entered for the first time its
\* defaults, and on return to the entry's own type the entry is encoded as
\* if the type had never been changed.
C13_TypeSwitchKeepsVariantKeysOnly ==
    SpawnSettled =>
        /\ VariantKeysOnly
        /\ OnlyTypeChanges =>
              LET is_herd == SpawnEncoded["type"] = "pokemon-herd"
              IN  /\ SpawnEncoded[IF is_herd THEN "levelRange" ELSE "level"]
                        = SourceLevelText
                  /\ (is_herd /\ spSrc["type"] # "pokemon-herd") =>
                        /\ SpawnEncoded["maxHerdSize"] = 5
                        /\ SpawnEncoded["minDistanceBetweenSpawns"] = 15
                        /\ SpawnEncoded["herdablePokemon"] = <<>>
                  /\ (~is_herd /\ spSrc["type"] = "pokemon-herd") =>
                        SpawnEncoded["pokemon"] = ""
                  /\ SpawnEncoded["type"] = spSrc["type"] =>
                        SpawnEncoded = SpawnUnedited

\* C13 witness: a herd of two was switched to pokemon and back in the
\* desktop editor, and the two members are encoded again
C13_Witness ==
    /\ SpawnSettled /\ spFront = "exe"
    /\ spSrc = HerdSpawn(<<HerdMemberA, HerdMemberB>>)
    /\ spLog = <<"type", "type">>
    /\ VariantKeysOnly
    /\ SpawnEncoded["herdablePokemon"] = <<HerdMemberA, HerdMemberB>>

\* the editor of the spawn's condition or anticondition: the object it was
\* built from, and the object it encodes
SpawnCondSource(key) == Get(spSrc, key, EmptyObj)

SpawnCondPrefix(key) ==
    SpawnKey \o (IF key = "condition" THEN "_cond" ELSE "_anti")

SpawnCondEditor(key) ==
    IF key = "condition" THEN spEd.cond_editor ELSE spEd.anti_editor

SpawnCondEncoded(key) ==
    IF spFront = "exe"
    THEN ConditionEditor_get_data(SpawnCondEditor(key))
    ELSE render_condition(SpawnCondSource(key), SpawnCondPrefix(key), spSs)

\* the value the editor holds for a field of the condition; the text of an
\* integer entry counts by the integer it reads as
SpawnCondValue(key, f) ==
    IF spFront = "app"
    THEN CondWidget(SpawnCondSource(key), SpawnCondPrefix(key), spSs, f)
    ELSE IF f = "timeRange" THEN SpawnCondEditor(key).time_var
    ELSE IF f = "moonPhase" THEN SpawnCondEditor(key).moon_var
    ELSE IF f \in CONDITION_BOOL_FIELDS THEN SpawnCondEditor(key).bool_vars[f]
    ELSE IF f \in CONDITION_INT_FIELDS
         THEN IntOr(SpawnCondEditor(key).int_vars[f].var, 0)
    ELSE IF f \in CONDITION_LIST_FIELDS THEN SpawnCondEditor(key).list_texts[f]
    ELSE SpawnCondEditor(key).str_vars[f]

\* every field of the condition is at its zero, false or empty value
AllFieldsZero(key) ==
    /\ \A f \in {"timeRange", "moonPhase"} \cup CONDITION_STRING_FIELDS :
          SpawnCondValue(key, f) = ""
    /\ \A f \in CONDITION_BOOL_FIELDS : ~SpawnCondValue(key, f)
    /\ \A f \in CONDITION_INT_FIELDS : SpawnCondValue(key, f) = 0
    /\ \A f \in CONDITION_LIST_FIELDS : SpawnCondValue(key, f) = <<>>

\* the source had an explicit value for an integer field whose entry still
\* holds an integer
ExplicitIntKept(key) ==
    \E f \in CONDITION_INT_FIELDS :
        /\ Has(SpawnCondSource(key), f)
        /\ spFront = "exe" => IsInt(SpawnCondEditor(key).int_vars[f].var)

\* C14 as stated: a condition whose every field is at its zero, false or
\* empty value is encoded as an empty object, and the encoded spawn entry
\* then has no condition key, respectively no anticondition key.
C14_ZeroConditionIsOmitted ==
    SpawnSettled =>
        \A key \in {"condition", "anticondition"} :
            AllFieldsZero(key) =>
                /\ SpawnCondEncoded(key) = EmptyObj
                /\ ~Has(SpawnEncoded, key)

\* C14 as amended: a condition whose every field is at its zero, false or
\* empty value, and for none of whose integer fields the source had an
\* explicit value, is encoded as an empty object; an integer field the
\* source had explicitly is encoded even when zero; and the encoded spawn
\* entry has the condition key, respectively the anticondition key, exactly
\* when the encoded condition is not empty.
C14_EmptyConditionIsOmitted ==
    SpawnSettled =>
        \A key \in {"condition", "anticondition"} :
            /\ (AllFieldsZero(key) /\ ~ExplicitIntKept(key)) =>
                  SpawnCondEncoded(key) = EmptyObj
            /\ (AllFieldsZero(key) /\ ExplicitIntKept(key)) =>
                  SpawnCondEncoded(key) # EmptyObj
            /\ Has(SpawnEncoded, key) <=> SpawnCondEncoded(key) # EmptyObj
            /\ Has(SpawnEncoded, key) =>
                  SpawnEncoded[key] = SpawnCondEncoded(key)

\* C14 witness: the source's condition holds an explicit false and an empty
\* string, every field of the desktop editor is at its zero value, and the
\* encoded entry has no condition key
C14_Witness ==
    /\ SpawnSettled /\ spFront = "exe"
    /\ Has(spSrc, "condition") /\ Has(spSrc["condition"], "canSeeSky")
    /\ AllFieldsZero("condition")
    /\ SpawnCondEncoded("condition") = EmptyObj
    /\ ~Has(SpawnEncoded, "condition")

\* the multipliers of the encoded entry
EncodedMultipliers == Get(SpawnEncoded, "weightMultipliers", <<>>)

\* C15: every encoded weight multiplier has both a multiplier key and a
\* condition key, the condition being an empty object when none of its
\* fields is populated, whereas the spawn entry's own condition key is there
\* only with a non-empty object.
C15_MultiplierAlwaysHasCondition ==
    SpawnSettled =>
        /\ \A i \in 1..Len(EncodedMultipliers) :
              DOMAIN EncodedMultipliers[i] = {"multiplier", "condition"}
        /\ Has(SpawnEncoded, "condition") =>
              SpawnEncoded["condition"] # EmptyObj

\* C15 witness: an encoded multiplier holds an empty condition in an entry
\* that has no condition key of its own; the source's multiplier had no
\* condition key
C15_Witness ==
    /\ SpawnSettled
    /\ LegacySource /\ ~Has(spSrc["weightMultiplier"], "condition")
    /\ spSrc["weightMultiplier"] # EmptyObj
    /\ ~Has(SpawnEncoded, "condition")
    /\ Len(EncodedMultipliers) = 1
    /\ EncodedMultipliers[1]["condition"] = EmptyObj

\* C18: after a herd member has been added to a herd spawn that had no
\* member, the encoded herdablePokemon list, which is what a save writes,
\* has exactly one entry, and the entry holds the default template's
\* pokemon "", levelRange "1-10" and weight 1.
C18_AddedHerdMemberIsDefault ==
    (SpawnSettled /\ spSrc = HerdSpawn(<<>>) /\ spLog = <<"add_herd">>) =>
        /\ Len(SpawnEncoded["herdablePokemon"]) = 1
        /\ \A k \in DOMAIN DefaultHerdMember :
              SpawnEncoded["herdablePokemon"][1][k] = DefaultHerdMember[k]

\* the items of the drop rows the editor shows, in order, as the encoder
\* reads them: the desktop editor strips the text, the web form does not
DropRowItems ==
    IF spFront = "exe"
    THEN [h \in 1..Len(spEd.drops_editor.entry_widgets) |->
             Strip(spEd.drops_editor.entry_widgets[h].item)]
    ELSE [h \in 1..spPlain[SpawnKey \o "_drops_entry_count"] |->
             spSs[SpawnKey \o "_drops_entry" \o ToString(h - 1) \o "_item"]]

NonEmptyItem(item) == item # ""

\* the items of the encoded drop entries
EncodedDropItems ==
    [i \in 1..Len(SpawnEncoded["drops"]["entries"]) |->
        SpawnEncoded["drops"]["entries"][i]["item"]]

\* C19: a drop entry whose item is empty is excluded from the encoded drops
\* entries, whatever its quantity range and percentage, and every encoded
\* drop entry has a non-empty item: the encoded items are the non-empty
\* items of the rows, in order.
C19_EmptyItemIsExcluded ==
    (SpawnSettled /\ Has(SpawnEncoded, "drops")) =>
        /\ EncodedDropItems = SelectSeq(DropRowItems, NonEmptyItem)
        /\ \A i \in 1..Len(EncodedDropItems) : EncodedDropItems[i] # ""

\* C19 witness: the first row holds an empty item and a percentage, and
\* the encoded entries start with the second row's
C19_Witness ==
    /\ SpawnSettled /\ Has(SpawnEncoded, "drops")
    /\ Len(DropRowItems) = 3 /\ DropRowItems[1] = ""
    /\ Get(spSrc["drops"]["entries"][1], "percentage", 0) > 0
    /\ Len(EncodedDropItems) > 0 /\ EncodedDropItems[1] = "feather"

\* a numeric entry's text, replaced by the text of the field's default when
\* float() or int() raises ValueError on it
FloatTextOr(t, d) == IF IsFloat(t) THEN t ELSE d

IntTextOr(t, d) == IF IsInt(t) THEN t ELSE d

\* the desktop editor with the default's text in every numeric entry whose
\* text is malformed: 1.0 for a weight and a multiplier, 1 for the drops
\* amount, 5 and 1.5 for the herd size and distance, 0 for max times and
\* percentage
Repaired(ed) ==
    [ed EXCEPT
        !.weight_var = FloatTextOr(@, "1.0"),
        !.herd_size_var = IntTextOr(@, "5"),
        !.herd_dist_var = FloatTextOr(@, "1.5"),
        !.herd_editors =
            [h \in 1..Len(ed.herd_editors) |->
                [ed.herd_editors[h] EXCEPT
                    !.weight_var = FloatTextOr(@, "1.0"),
                    !.max_times_var = IntTextOr(@, "0")]],
        !.wm_editors =
            [h \in 1..Len(ed.wm_editors) |->
                [ed.wm_editors[h] EXCEPT !.mult_var = FloatTextOr(@, "1.0")]],
        !.drops_editor.amount_var = IntTextOr(@, "1"),
        !.drops_editor.entry_widgets =
            [h \in 1..Len(ed.drops_editor.entry_widgets) |->
                [ed.drops_editor.entry_widgets[h] EXCEPT
                    !.pct = FloatTextOr(@, "0.0")]]]

\* some numeric entry of the desktop editor holds a malformed text
SomeMalformed == Repaired(spEd) # spEd

\* C20: malformed text in a numeric entry does not keep the entry from being
\* encoded: the weight falls back to 1.0, a multiplier to 1.0, the drops
\* amount to 1, and every other field is encoded as it is with the
\* default's text in the place of the malformed one.
C20_MalformedNumberFallsBack ==
    (SpawnSettled /\ spFront = "exe") =>
        /\ ~IsFloat(spEd.weight_var) => SpawnEncoded["weight"] = 10
        /\ \A h \in 1..Len(spEd.wm_editors) :
              ~IsFloat(spEd.wm_editors[h].mult_var) =>
                  SpawnEncoded["weightMultipliers"][h]["multiplier"] = 10
        /\ (spEd.drops_editor.enabled_var
            /\ ~IsInt(spEd.drops_editor.amount_var)) =>
              SpawnEncoded["drops"]["amount"] = 1
        /\ SpawnEncoded = SpawnEditor_get_data(Repaired(spEd))

\* C20 witness: the weight entry holds "abc" and a multiplier's entry too,
\* and the entry is encoded with both at 1.0 and its other fields as loaded
C20_Witness ==
    /\ SpawnSettled /\ spFront = "exe"
    /\ spLog = <<"weight", "multiplier">>
    /\ spEd.weight_var = "abc" /\ spSrc["weight"] = 20
    /\ Len(spEd.wm_editors) = 1 /\ spEd.wm_editors[1].mult_var = "abc"
    /\ SomeMalformed
    /\ SpawnEncoded["weight"] = 10
    /\ SpawnEncoded["weightMultipliers"][1]["multiplier"] = 10
    /\ SpawnEncoded["id"] = spSrc["id"] /\ SpawnEncoded["level"] = spSrc["level"]

-----------------------------------------------------------------------------
(* List order across load, edit and save in the web editor (SpecWeb) *)

\* the user has done nothing to the editors but, at most once, tick Del
AtMostOneDel ==
    /\ Len(WebEdits) <= 1
    /\ \A i \in 1..Len(WebEdits) : WebEdits[i].op = "del"

\* the entries of a sub-list of the loaded document that the user has not
\* deleted, in the order they have in the document
Survivors(doc, s, l) ==
    IF WebEdits # <<>> /\ WebEdits[1].spawn = s /\ WebEdits[1].list = l
    THEN RemoveAt(WebSubList(doc, s, l), WebEdits[1].index + 1)
    ELSE WebSubList(doc, s, l)

\* C17: the saved lists hold the surviving entries in the order they had in
\* the loaded document, duplicates included: when the user has only deleted
\* entries (here at most one), Save writes the mod lists and the spawn list
\* entry for entry as loaded, and every spawn's herd members, weight
\* multipliers and drop entries as loaded less the deleted entry.
C17_SavedListsHoldSurvivorsInOrder ==
    [][(/\ webPending
        /\ webTrig = "_save"
        /\ webSaves' = webSaves + 1
        /\ AtMostOneDel)
       => LET was == disk[webSelected].doc
              now == disk'[webSelected].doc
          IN  /\ now["neededInstalledMods"]
                    = Get(was, "neededInstalledMods", <<>>)
              /\ now["neededUninstalledMods"]
                    = Get(was, "neededUninstalledMods", <<>>)
              /\ Len(now["spawns"]) = Len(was["spawns"])
              /\ \A s \in 0..(Len(was["spawns"]) - 1) :
                    \A l \in {"_herd", "_wms", "_drops_entry"} :
                        WebSubList(now, s, l) = Survivors(was, s, l)]_vars

-----------------------------------------------------------------------------
(* Enum decoding of a condition (SpecCond) *)

\* the source's value of an enum field is outside the field's vocabulary
UnknownEnum(f, options) ==
    /\ Has(condSrc, f)
    /\ PyStr(condSrc[f]) \notin Elems(options)

\* C22: in an editor that has decoded a condition and has not been edited, a
\* timeRange or moonPhase value outside the known vocabulary stands as the
\* unset choice, so the condition the editor encodes has no such key.
C22_UnknownEnumDecodesToUnset ==
    (condPhase = "editing" /\ condEdits = 0) =>
        /\ UnknownEnum("timeRange", TIME_RANGES) => ~Has(CondEncoded, "timeRange")
        /\ UnknownEnum("moonPhase", MOON_PHASES) => ~Has(CondEncoded, "moonPhase")

-----------------------------------------------------------------------------
(* What writes a species file in the web editor (SpecWeb) *)

\* C25: a species file is written only by the explicit save action: a step
\* that changes the directory is a script run that the click on "Save" has
\* triggered; edits, additions, deletions and the choice of another file
\* leave every file as it is.
C25_OnlySaveWritesTheFile ==
    [][disk' # disk => webTrig = "_save"]_vars

-----------------------------------------------------------------------------
(* Blank seeding (SpecSeed) *)

\* C27: in the step in which create_blank_spawns completes, every fetched
\* species gets to have a file whose name starts with its dex number, every
\* file the step creates holds exactly the blank record, and no file that
\* existed before the step is modified.
C27_BlankSeeding ==
    [][(seedPc = "blank" /\ seedPc' = "done") =>
          /\ \A s \in fetched :
                \E f \in FileName : f.dex = s.dex /\ disk'[f] # Absent
          /\ \A f \in FileName :
                IF disk[f] = Absent
                THEN disk'[f] \in {Absent, File(BLANK_SPAWN)}
                ELSE disk'[f] = disk[f]]_vars

\* C27 witness: a get_default call has completed on a directory that held a
\* locally edited file of a fetched species the archive has no file for; the
\* file is as it was, and another species has got its blank file.
C27_Witness ==
    /\ seedPc = "done" /\ seedOp = "get_default"
    /\ \E g \in fetched :
          /\ g.dex \notin existing_dex(existing_files)
          /\ before[g] = File(LocalDoc) /\ disk[g] = File(LocalDoc)
    /\ \E f \in fetched :
          before[f] = Absent /\ disk[f] = File(BLANK_SPAWN)

-----------------------------------------------------------------------------
(* The rerun loop of the web editor (SpecWebLive) *)

\* C30: whenever a script run is due, after finitely many runs one completes
\* without asking for another: the loop of reruns that a ticked Del checkbox
\* or a pressed Add button starts comes to an end.
C30_RerunLoopTerminates == webPending ~> ~webPending

\* C30 witness: the tick of a Del checkbox has made the script end in
\* st.rerun() twice in a row.
C30_Witness ==
    /\ webReruns >= 2
    /\ webLog # <<>>
    /\ webLog[Len(webLog)].op = "del"


-----------------------------------------------------------------------------
(* Restore to default in the desktop editor (SpecRestore)                  *)

C29_NoFileOperationWhileWorkerRuns ==
    [][workerPc # "none" =>
          /\ current_file' \in {current_file, NoFile}
          /\ deskSaves' = deskSaves]_vars

-----------------------------------------------------------------------------
(* The two front-ends as encoders of one spawn entry (SpecSpawn) *)

\* the entry the desktop editor encodes when nothing has been edited
ExeEncodes(spawn) == SpawnEditor_get_data(SpawnEditor(spawn, FromFile(1)))

\* the entry the first run of the web form returns
AppEncodes(spawn) ==
    render_spawn(spawn, SpawnKey, Ctx(NoSession, EmptyObj, "")).result

\* C26: an entry decoded by one front-end and not edited is encoded as the
\* other front-end encodes the same entry
C26_FrontEndsEncodeAlike ==
    (spPhase = "editing" /\ spLog = <<>> /\ ~spPending) =>
        /\ spFront = "exe" => SpawnEncoded = AppEncodes(spSrc)
        /\ spFront = "app" => SpawnEncoded = ExeEncodes(spSrc)

-----------------------------------------------------------------------------
(* Presets and numbers of a spawn entry (SpecEntry) *)

\* the presets selected in the editor
SelectedPresets ==
    IF spFront = "exe" THEN spEd.presets_list ELSE spSs[SpawnKey \o "_presets"]

\* the user has toggled the checkbox of the token
Toggled(t) == \E i \in 1..Len(spLog) : spLog[i] = "preset " \o t

\* C23: the encoded entry holds the selected presets, and no presets key
\* exactly when none is selected; a token of the loaded entry that is not in
\* PRESET_OPTIONS is among the options while it is selected, and it is in the
\* encoded entry unless the user has deselected it
C23_UnknownPresetKept ==
    (spPhase = "editing" /\ ~spPending) =>
        /\ Has(SpawnEncoded, "presets") <=> SelectedPresets # <<>>
        /\ Get(SpawnEncoded, "presets", <<>>) = SelectedPresets
        /\ \A u \in Elems(Get(spSrc, "presets", <<>>)) \ Elems(PRESET_OPTIONS) :
              /\ u \in Elems(SelectedPresets) =>
                    u \in Elems(IF spFront = "exe"
                                THEN all_opts(spEd.presets_list)
                                ELSE preset_opts(Get(spSrc, "presets", <<>>)))
              /\ ~Toggled(u) => u \in Elems(Get(SpawnEncoded, "presets", <<>>))

\* an entry with a token outside the curated list has had two curated
\* presets toggled and is encoded with the token
C23_Witness ==
    /\ spPhase = "editing" /\ ~spPending
    /\ UnknownPreset \in Elems(Get(spSrc, "presets", <<>>))
    /\ Toggled("natural") /\ Toggled("urban")
    /\ UnknownPreset \in Elems(Get(SpawnEncoded, "presets", <<>>))

\* C24: the encoded entry has a drops amount of at least 1 and a herd size of
\* at least 1
C24_SavedIntegersAtLeastOne ==
    (spPhase = "editing" /\ ~spPending) =>
        /\ Has(SpawnEncoded, "drops") => SpawnEncoded["drops"]["amount"] >= 1
        /\ Has(SpawnEncoded, "maxHerdSize") => SpawnEncoded["maxHerdSize"] >= 1

\* C21: an entry whose weight is no number is decoded without an exception,
\* and encoded unedited it is the entry with the default weight 1.0
C21_MalformedWeightIsDefaulted ==
    (spPhase # "source" /\ Get(spSrc, "weight", 10) = NotNumber) =>
        /\ spPhase = "editing"
        /\ (spLog = <<>> /\ ~spPending) =>
              SpawnEncoded = ("weight" :> 10) @@ spSrc
=============================================================================
